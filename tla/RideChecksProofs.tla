-------------------------- MODULE RideChecksProofs --------------------------
(***************************************************************************)
(* What holds of RideChecks for every set of rides, stations, workers and  *)
(* exports, and that it implements JobQueue.                               *)
(***************************************************************************)
EXTENDS RideChecks, SequenceTheorems, TLAPS

QP == INSTANCE JobQueueProofs

LEMMA TypesOfTasks ==
    \A task \in Task : task.type \in Types /\ task.payload \in Payloads
                       /\ QueueOf(task) \in Queues
BY DEF Task, Types, Payloads, Queues, QueueOf, TypeLogTestMessage,
       TypeCheckRideDistance, TypeCheckRideWeather

LEMMA CommandsPushTasks ==
    \A command \in AllCommands : TasksOf(command) \subseteq Task
<1> SUFFICES ASSUME NEW command \in AllCommands PROVE TasksOf(command) \subseteq Task
    OBVIOUS
<1>1. TestTasks \subseteq Task
    BY DEF TestTasks, Task
<1>2. DistanceTasks \subseteq Task
    BY DEF DistanceTasks, UncheckedDistance, Loaded, DistancePayload, Task
<1>3. \A force \in BOOLEAN :
         /\ WeatherTasks(UncheckedWeather, force) \subseteq Task
         /\ WeatherTasks(Loaded, force) \subseteq Task
    BY DEF WeatherTasks, UncheckedWeather, Loaded, WeatherPayload, Task
<1> QED
    BY <1>1, <1>2, <1>3 DEF TasksOf, AllCommands

-----------------------------------------------------------------------------
(***************************************************************************)
(* RideChecks implements JobQueue.                                         *)
(***************************************************************************)
TodoOK == todo \in [Clients -> SUBSET Task]

LEMMA TodoInit == Init => TodoOK
BY DEF Init, TodoOK

LEMMA TodoStep == TodoOK /\ [Next]_vars => TodoOK'
<1> SUFFICES ASSUME TodoOK, [Next]_vars PROVE TodoOK'
    OBVIOUS
<1>1. ASSUME NEW c \in Clients, NEW command \in Commands, RunCommand(c, command)
      PROVE  TodoOK'
    BY <1>1, CommandsPushTasks, RideChecksAssumption DEF RunCommand, TodoOK
<1>2. ASSUME NEW c \in Clients, NEW task, Dispatch(c, task)
      PROVE  TodoOK'
    BY <1>2 DEF Dispatch, TodoOK
<1>3. ASSUME NEW c \in Clients, DispatchFails(c)
      PROVE  TodoOK'
    BY <1>3 DEF DispatchFails, TodoOK
<1>4. CASE UNCHANGED todo
    BY <1>4 DEF TodoOK
<1>5. ASSUME NEW w \in Workers,
             WorkerStep(w) \/ ProcessStep(w) \/ FetchPanics(w) \/ Crash(w)
      PROVE  UNCHANGED todo
    BY <1>5 DEF WorkerStep, LoopStep, HandlerStep, LogTestMessage, FindRide,
        FindOrigin, FindDestination, FindCached, Fetch, FetchRoute, FetchWeather, Save, MarkChecked,
        CallFails, ProcessStep, FetchPanics, Crash, Continue, GoTo, Return, Fail
<1> QED
    BY <1>1, <1>2, <1>3, <1>4, <1>5 DEF Next, PushAgain, Load, vars

\* Every step is one of JobQueue, or leaves its variables alone.
LEMMA StepMaps == TodoOK /\ [Next]_vars => [Q!Next]_(Q!queueVars)
<1> SUFFICES ASSUME TodoOK, [Next]_vars PROVE [Q!Next]_(Q!queueVars)
    OBVIOUS
<1>1. CASE UNCHANGED queueVars
    BY <1>1 DEF queueVars, Q!queueVars, Q!redisVars, Q!workerVars
<1>2. ASSUME NEW c \in Clients, NEW task \in todo[c], Dispatch(c, task)
      PROVE  Q!Next
    <2>1. task \in Task
        BY <1>2 DEF TodoOK
    <2> QED
        BY <1>2, <2>1, TypesOfTasks DEF Dispatch, Q!Next, Q!ClientStep
<1>3. ASSUME NEW c \in Clients, PushAgain(c) \/ DispatchFails(c)
      PROVE  Q!Next
    BY <1>3 DEF PushAgain, DispatchFails, Q!Next, Q!ClientStep
<1>4. ASSUME NEW w \in Workers, LoopStep(w)
      PROVE  Q!Next
    BY <1>4 DEF LoopStep, Q!Next, Q!WorkerStep
<1>5. ASSUME NEW w \in Workers, ProcessStep(w) \/ FetchPanics(w) \/ Crash(w)
      PROVE  Q!Next
    BY <1>5 DEF ProcessStep, FetchPanics, Crash, Q!Next, Q!ProcessStep
<1>6. ASSUME NEW w \in Workers, HandlerStep(w)
      PROVE  Q!Next \/ UNCHANGED queueVars
    <2>1. CASE Q!HandlerOk(w) \/ Q!HandlerError(w)
        BY <2>1 DEF Q!Next, Q!WorkerStep
    <2>2. ASSUME ~(Q!HandlerOk(w) \/ Q!HandlerError(w))
          PROVE  UNCHANGED queueVars
        BY <1>6, <2>2 DEF HandlerStep, LogTestMessage, FindRide, FindOrigin,
            FindDestination, FindCached, Fetch, FetchRoute, FetchWeather, Save, MarkChecked, CallFails,
            Continue, GoTo, Return, Fail
    <2> QED
        BY <2>1, <2>2
<1>7. ASSUME NEW c \in Clients, NEW command \in Commands, RunCommand(c, command)
      PROVE  UNCHANGED queueVars
    BY <1>7 DEF RunCommand
<1> QED
    BY <1>1, <1>2, <1>3, <1>4, <1>5, <1>6, <1>7 DEF Next, WorkerStep, Load, vars

(* The commands and handlers use the queue as JobQueue says that any       *)
(* client and any handler may (jobs.go, worker.go run, dispatch.go).       *)
THEOREM ImplementsQueue == Spec => QueueSpec
<1>1. Init => Q!Init
    BY DEF Init
<1> QED
    BY <1>1, TodoInit, TodoStep, StepMaps, PTL DEF Spec, QueueSpec, Q!Spec

LEMMA QueueAssumption == QP!JobQueueAssumption
BY RideChecksAssumption DEF QP!JobQueueAssumption, QP!AllFaultKinds, Q!AllFaultKinds,
    Types, Registered, QP!Job, Q!Job, QP!IsFiniteSet, IsFiniteSet

LEMMA SameQueue ==
    /\ Q!Init <=> QP!Init
    /\ [Q!Next]_(Q!queueVars) <=> [QP!Next]_(QP!queueVars)
    /\ Q!Inv <=> QP!Inv
BY DEF Q!Init, QP!Init, Q!queueVars, QP!queueVars, Q!redisVars, QP!redisVars,
    Q!workerVars, QP!workerVars, Q!Inv, QP!Inv, Q!TypeOK, QP!TypeOK, Q!Job, QP!Job,
    Q!Locations, QP!Locations, Q!JobsInPlace, QP!JobsInPlace, Q!Busy, QP!Busy,
    Q!ServedBy, QP!ServedBy, Q!Next, QP!Next, Q!ClientStep, QP!ClientStep,
    Q!WorkerStep, QP!WorkerStep, Q!ProcessStep, QP!ProcessStep, Q!Push, QP!Push,
    Q!PushReplyLost, QP!PushReplyLost, Q!PushFails, QP!PushFails, Q!Resend, QP!Resend,
    Q!GiveUp, QP!GiveUp, Q!MayPush, QP!MayPush, Q!NewJob, QP!NewJob, Q!Fault, QP!Fault,
    Q!CheckContext, QP!CheckContext, Q!PopJob, QP!PopJob, Q!PopNothing, QP!PopNothing,
    Q!IsNext, QP!IsNext, Q!Ready, QP!Ready, Q!HandlerOk, QP!HandlerOk,
    Q!HandlerError, QP!HandlerError, Q!RecordFailure, QP!RecordFailure,
    Q!Start, QP!Start, Q!Terminate, QP!Terminate, Q!HandlerPanics, QP!HandlerPanics,
    Q!Crash, QP!Crash, Q!Dies, QP!Dies

LEMMA QueueTypes == Q!Spec => []Q!Inv
<1>1. QP!Init => QP!Inv
    BY QP!InitInv, QueueAssumption
<1>2. QP!Inv /\ [QP!Next]_(QP!queueVars) => QP!Inv'
    BY QP!StepInv, QueueAssumption
<1> QED
    BY <1>1, <1>2, SameQueue, PTL DEF Q!Spec

LEMMA QueueSpecs == QueueSpec <=> QP!Spec
BY SameQueue, PTL DEF QueueSpec, Q!Spec, QP!Spec

LEMMA SameLists ==
    /\ Q!OneAtATime <=> QP!OneAtATime
    /\ Q!RunOnce <=> QP!RunOnce
    /\ Q!InPushOrder <=> QP!InPushOrder
    /\ Q!Accounted <=> QP!Accounted
<1> USE DEF Q!Busy, QP!Busy, Q!QueuedIds, QP!QueuedIds, Q!IdsIn, QP!IdsIn
<1>1. Q!OneAtATime <=> QP!OneAtATime
    BY DEF Q!OneAtATime, QP!OneAtATime, Q!ServedBy, QP!ServedBy,
        Q!Cardinality, QP!Cardinality
<1>2. Q!RunOnce <=> QP!RunOnce
    BY DEF Q!RunOnce, QP!RunOnce
<1>3. Q!InPushOrder <=> QP!InPushOrder
    BY DEF Q!InPushOrder, QP!InPushOrder
<1>4. Q!Accounted <=> QP!Accounted
    BY DEF Q!Accounted, QP!Accounted, Q!Life!Accounted, QP!Life!Accounted,
        Q!Life!Missing, QP!Life!Missing, Q!Life!Cardinality, QP!Life!Cardinality,
        Q!HeldIds, QP!HeldIds
<1> QED
    BY <1>1, <1>2, <1>3, <1>4

(* What is proved of any client and any handler of the queue holds of the  *)
(* commands and the checks: the jobs of a list with one worker run one at  *)
(* a time, a check that was pushed once runs once and after the older ones *)
(* of its list, and none disappears without a fault (jobs.go, worker.go    *)
(* run, queue.go).                                                         *)
THEOREM ChecksAreJobs ==
    Spec => [](Q!OneAtATime /\ Q!RunOnce /\ Q!InPushOrder /\ Q!Accounted)
BY ImplementsQueue, QueueSpecs, SameLists, QueueAssumption, QP!Exclusive, QP!RunsOnce,
    QP!FirstInFirstOut, QP!NoJobLostInSilence, PTL

-----------------------------------------------------------------------------
(***************************************************************************)
(* The tables.  TablesInv is what they satisfy by themselves; Grow is what *)
(* a step does to them at most, which keeps what a handler relies on.      *)
(***************************************************************************)
TablesInv ==
    /\ StoreTypeOK
    /\ RowsFromExports
    /\ EnrichmentBacked
    /\ WeatherOfItsRide

Grow ==
    /\ stations \subseteq stations'
    /\ Loaded \subseteq Loaded'
    /\ distanceChecked \subseteq distanceChecked'
    /\ weatherChecked \subseteq weatherChecked'
    /\ routes \subseteq routes'
    /\ \A r \in Rides : weather[r] # Absent => weather'[r] # Absent

LEMMA TablesInit == StoreInit => TablesInv
BY DEF StoreInit, TablesInv, StoreTypeOK, RowsFromExports, EnrichmentBacked,
       WeatherOfItsRide, Loaded

LEMMA TablesSame ==
    ASSUME TablesInv, UNCHANGED storeVars
    PROVE  TablesInv' /\ Grow
BY DEF storeVars, TablesInv, StoreTypeOK, RowsFromExports, EnrichmentBacked,
       WeatherOfItsRide, Loaded, Grow

\* A row that a load writes is no Absent.
LEMMA ContentIsARow ==
    /\ \A r \in Rides : \A content \in Export[r] : content \in Content
    /\ \A content \in Content : content # Absent /\ Observed(content) \in Observation
                                /\ Observed(content) # Absent
BY StoreAssumption, RideChecksAssumption DEF Content, Observed, Observation

LEMMA TablesLoad ==
    ASSUME TablesInv, LoadStatement(Export)
    PROVE  TablesInv' /\ Grow
<1> USE DEF TablesInv
<1>1. CASE \E code \in Codes : InsertStation(code)
    BY <1>1 DEF InsertStation, StoreTypeOK, RowsFromExports, EnrichmentBacked,
        WeatherOfItsRide, Loaded, Grow
<1>2. ASSUME NEW r \in Rides, NEW content \in Export[r],
             InsertRide(r, content) \/ UpdateRide(r, content)
      PROVE  TablesInv' /\ Grow
    <2>1. /\ content \in Content /\ content # Absent
          /\ rides' = [rides EXCEPT ![r] = content]
          /\ UNCHANGED <<stations, routes, weather>>
        BY <1>2, ContentIsARow DEF InsertRide, UpdateRide
    <2>2. UNCHANGED <<distanceChecked, weatherChecked>>
        BY <1>2 DEF InsertRide, UpdateRide, RowsFromExports
    <2>3. Loaded' = Loaded \cup {r}
        BY <2>1 DEF Loaded, StoreTypeOK
    <2>4. StoreTypeOK'
        BY <2>1, <2>2 DEF StoreTypeOK
    <2>5. RowsFromExports'
        BY <2>1, <2>2, <2>3 DEF RowsFromExports, StoreTypeOK, Loaded
    <2>6. EnrichmentBacked' /\ WeatherOfItsRide'
        BY <2>1, <2>2 DEF EnrichmentBacked, WeatherOfItsRide
    <2> QED
        BY <2>1, <2>2, <2>3, <2>4, <2>5, <2>6 DEF Grow
<1> QED
    BY <1>1, <1>2 DEF LoadStatement

LEMMA TablesSaveRoute ==
    ASSUME TablesInv, NEW content \in Content, SaveRoute(Pair(content))
    PROVE  TablesInv' /\ Grow
BY DEF SaveRoute, Pair, Content, TablesInv, StoreTypeOK, RowsFromExports,
       EnrichmentBacked, WeatherOfItsRide, Loaded, Grow

LEMMA TablesSaveWeather ==
    ASSUME TablesInv, NEW r \in Rides, NEW content \in Export[r],
           SaveWeather(r, Observed(content))
    PROVE  TablesInv' /\ Grow
<1>1. Observed(content) \in Observation /\ Observed(content) # Absent
    BY ContentIsARow
<1> QED
    BY <1>1 DEF SaveWeather, TablesInv, StoreTypeOK, RowsFromExports,
        EnrichmentBacked, WeatherOfItsRide, Loaded, Grow

\* A mark is only set when its record is there.
LEMMA TablesMark ==
    ASSUME TablesInv, NEW r \in Rides, NEW content \in Export[r],
           \/ MarkDistance(r) /\ Pair(content) \in routes
           \/ MarkWeather(r) /\ weather[r] # Absent
    PROVE  TablesInv' /\ Grow
<1>1. CASE MarkDistance(r) /\ Pair(content) \in routes
    BY <1>1 DEF MarkDistance, TablesInv, StoreTypeOK, RowsFromExports,
        EnrichmentBacked, WeatherOfItsRide, Loaded, Grow
<1>2. CASE MarkWeather(r) /\ weather[r] # Absent
    BY <1>2 DEF MarkWeather, TablesInv, StoreTypeOK, RowsFromExports,
        EnrichmentBacked, WeatherOfItsRide, Loaded, Grow
<1> QED
    BY <1>1, <1>2

-----------------------------------------------------------------------------
(***************************************************************************)
(* The jobs: a list only has what the commands push.                       *)
(***************************************************************************)
LEMMA JobsInit == Init => JobsAreChecks
BY EmptySeq DEF Init, Q!Init, JobsAreChecks

LEMMA JobsAppend ==
    ASSUME JobsAreChecks, NEW q \in Queues, NEW j \in CheckJob,
           queues' = [queues EXCEPT ![q] = Append(@, j)],
           unanswered' \in [Clients -> CheckJob \cup {NoJob}], UNCHANGED job
    PROVE  JobsAreChecks'
BY AppendProperties DEF JobsAreChecks

LEMMA JobsTake ==
    ASSUME JobsAreChecks, NEW w \in Workers, NEW q \in Queues, Q!IsNext(w, q),
           queues' = [queues EXCEPT ![q] = Tail(@)]
    PROVE  queues' \in [Queues -> Seq(CheckJob)] /\ Head(queues[q]) \in CheckJob
<1>1. queues[q] # <<>>
    BY DEF Q!IsNext, Q!Ready
<1> QED
    BY <1>1, HeadTailProperties DEF JobsAreChecks

LEMMA JobsStep ==
    ASSUME TodoOK, Q!Inv, JobsAreChecks, [Next]_vars
    PROVE  JobsAreChecks'
<1> USE DEF JobsAreChecks
<1>1. ASSUME NEW c \in Clients, NEW task \in todo[c], Dispatch(c, task)
      PROVE  JobsAreChecks'
    <2> DEFINE j == Q!NewJob(QueueOf(task), task.type, task.payload)
    <2>1. task \in Task
        BY <1>1 DEF TodoOK
    <2>2. j \in Q!Job
        BY <1>1, <2>1, TypesOfTasks, RideChecksAssumption
        DEF Dispatch, Q!Push, Q!PushReplyLost, Q!MayPush, Q!NewJob, Q!Job, Q!Inv, Q!TypeOK
    <2>3. [type |-> j.type, payload |-> j.payload] = task /\ j.queue = QueueOf(task)
        BY <2>1 DEF Q!NewJob, Task
    <2>4. j \in CheckJob
        BY <2>1, <2>2, <2>3 DEF CheckJob
    <2>5. /\ queues' = [queues EXCEPT ![QueueOf(task)] = Append(@, j)]
          /\ UNCHANGED job
          /\ unanswered' \in [Clients -> CheckJob \cup {NoJob}]
        BY <1>1, <2>4 DEF Dispatch, Q!Push, Q!PushReplyLost, Q!workerVars
    <2> QED
        BY <2>1, <2>4, <2>5, TypesOfTasks, JobsAppend
<1>2. ASSUME NEW c \in Clients, PushAgain(c)
      PROVE  JobsAreChecks'
    <2>1. unanswered[c] \in CheckJob /\ unanswered[c].queue \in Queues
        BY <1>2 DEF PushAgain, Q!Resend, CheckJob, Q!Job
    <2>2. /\ queues' = [queues EXCEPT ![unanswered[c].queue] = Append(@, unanswered[c])]
          /\ UNCHANGED job
          /\ unanswered' \in [Clients -> CheckJob \cup {NoJob}]
        BY <1>2 DEF PushAgain, Q!Resend, Q!workerVars
    <2> QED
        BY <2>1, <2>2, JobsAppend
<1>3. ASSUME NEW c \in Clients, DispatchFails(c)
      PROVE  JobsAreChecks'
    BY <1>3 DEF DispatchFails, Q!PushFails, Q!GiveUp, Q!workerVars
<1>4. ASSUME NEW w \in Workers, Q!PopJob(w)
      PROVE  JobsAreChecks'
    BY <1>4, JobsTake DEF Q!PopJob
<1>5. ASSUME NEW w \in Workers, Q!PopNothing(w)
      PROVE  JobsAreChecks'
    BY <1>5, JobsTake DEF Q!PopNothing
<1>6. ASSUME NEW w \in Workers,
             \/ Q!CheckContext(w) \/ Q!RecordFailure(w) \/ ProcessStep(w)
             \/ FetchPanics(w) \/ Crash(w)
      PROVE  JobsAreChecks'
    BY <1>6 DEF Q!CheckContext, Q!RecordFailure, ProcessStep, Q!Start, Q!Terminate,
        FetchPanics, Q!HandlerPanics, Crash, Q!Crash, Q!Dies, Q!redisVars
<1>7. CASE UNCHANGED queueVars
    BY <1>7 DEF queueVars
<1>8. ASSUME NEW w \in Workers, HandlerStep(w)
      PROVE  JobsAreChecks'
    <2>1. CASE Q!HandlerOk(w) \/ Q!HandlerError(w)
        BY <2>1 DEF Q!HandlerOk, Q!HandlerError, Q!redisVars
    <2>2. CASE UNCHANGED queueVars
        BY <1>7, <2>2
    <2> QED
        BY <1>8, <2>1, <2>2 DEF HandlerStep, LogTestMessage, FindRide, FindOrigin,
            FindDestination, FindCached, Fetch, FetchRoute, FetchWeather, Save, MarkChecked, CallFails,
            Continue, GoTo, Return, Fail
<1> QED
    BY <1>1, <1>2, <1>3, <1>4, <1>5, <1>6, <1>7, <1>8
    DEF Next, WorkerStep, LoopStep, RunCommand, Load, vars

-----------------------------------------------------------------------------
(***************************************************************************)
(* The handlers.  CallsInv relies on the tables and the jobs.              *)
(***************************************************************************)
CallsInv ==
    /\ call \in [Workers -> Call]
    /\ \A w \in Workers : CallInPlace(w)

BaseInv == TodoOK /\ Q!Inv /\ JobsAreChecks /\ TablesInv /\ CallsInv

Stays(u) == pc'[u] = pc[u] /\ job'[u] = job[u] /\ call'[u] = call[u]

LEMMA RideIsARide ==
    ASSUME BaseInv, NEW w \in Workers,
           Doing(w, TypeCheckRideDistance) \/ Doing(w, TypeCheckRideWeather)
    PROVE  Ride(w) \in Rides
<1>1. job[w] \in CheckJob
    BY DEF BaseInv, JobsAreChecks, Doing, Q!Inv, Q!JobsInPlace, Q!Busy
<1> QED
    BY <1>1 DEF Doing, Ride, CheckJob, Task, DistancePayload, WeatherPayload,
        TypeLogTestMessage, TypeCheckRideDistance, TypeCheckRideWeather

\* The tables only grow, so a handler that waits finds its call in place.
LEMMA CallWaits ==
    ASSUME BaseInv, Grow, NEW w \in Workers, Stays(w)
    PROVE  CallInPlace(w)'
<1>1. CallInPlace(w)
    BY DEF BaseInv, CallsInv
<1>2. \A type : Doing(w, type)' <=> Doing(w, type)
    BY DEF Stays, Doing
<1>3. Ride(w)' = Ride(w)
    BY DEF Stays, Ride
<1>4. \A content : RouteAllowed(Pair(content)) => RouteAllowed(Pair(content))'
    BY DEF Grow, RouteAllowed
<1>5. ASSUME call[w].step # "ride", Cached(w) PROVE Cached(w)'
    <2>1. Ride(w) \in Rides
        BY <1>1, <1>5, RideIsARide DEF CallInPlace
    <2> QED
        BY <1>2, <1>3, <1>5, <2>1 DEF Cached, Grow, Stays
<1> QED
    BY <1>1, <1>2, <1>3, <1>4, <1>5 DEF CallInPlace, Stays, Grow

\* A handler that is over, or begins, has nothing to keep.
LEMMA CallIsNew ==
    ASSUME NEW w \in Workers, call'[w] = NewCall
    PROVE  CallInPlace(w)'
BY DEF CallInPlace, NewCall

\* What a handler has read is a version of the row of its ride.
LEMMA CallIsOfItsRide ==
    ASSUME BaseInv, NEW w \in Workers, NEW step, Checking(w, step), step # "ride"
    PROVE  /\ Ride(w) \in Rides
           /\ call[w].ride \in Export[Ride(w)]
           /\ call[w].ride \in Content
BY RideIsARide, ContentIsARow DEF Checking, BaseInv, CallsInv, CallInPlace

LEMMA TablesStep ==
    ASSUME BaseInv, [Next]_vars
    PROVE  TablesInv' /\ Grow
<1> USE DEF BaseInv
<1>1. CASE UNCHANGED storeVars
    BY <1>1, TablesSame
<1>2. CASE Load
    BY <1>2, TablesLoad DEF Load
<1>3. ASSUME NEW w \in Workers, Save(w)
      PROVE  TablesInv' /\ Grow
    <2>1. CASE SaveStatement(w)
        BY <1>3, <2>1, CallIsOfItsRide, TablesSaveRoute, TablesSaveWeather
        DEF Save, SaveStatement
    <2> QED
        BY <1>1, <1>3, <2>1 DEF Save
<1>4. ASSUME NEW w \in Workers, MarkChecked(w)
      PROVE  TablesInv' /\ Grow
    <2>1. Cached(w)
        BY <1>4 DEF MarkChecked, Checking, CallsInv, CallInPlace
    <2> QED
        BY <1>4, <2>1, CallIsOfItsRide, TablesMark DEF MarkChecked, Cached
<1>5. ASSUME NEW w \in Workers,
             \/ LoopStep(w) \/ ProcessStep(w) \/ FetchPanics(w) \/ Crash(w)
             \/ LogTestMessage(w) \/ FindRide(w) \/ FindOrigin(w) \/ FindDestination(w)
             \/ FindCached(w) \/ Fetch(w) \/ CallFails(w)
      PROVE  UNCHANGED storeVars
    BY <1>5 DEF LoopStep, ProcessStep, FetchPanics, Crash, LogTestMessage, FindRide,
        FindOrigin, FindDestination, FindCached, Fetch, FetchRoute, FetchWeather, CallFails
<1>6. ASSUME NEW c \in Clients,
             \/ \E command \in Commands : RunCommand(c, command)
             \/ \E task \in todo[c] : Dispatch(c, task)
             \/ PushAgain(c) \/ DispatchFails(c)
      PROVE  UNCHANGED storeVars
    BY <1>6 DEF RunCommand, Dispatch, PushAgain, DispatchFails
<1> QED
    BY <1>1, <1>2, <1>3, <1>4, <1>5, <1>6 DEF Next, WorkerStep, HandlerStep, vars

\* The steps of a handler, one by one.  Those of the other workers wait.
LEMMA OthersWait ==
    ASSUME BaseInv, Grow, NEW w \in Workers, CallInPlace(w)',
           \E next \in Call : call' = [call EXCEPT ![w] = next],
           \A u \in Workers \ {w} : pc'[u] = pc[u] /\ job'[u] = job[u]
    PROVE  CallsInv'
<1>1. \A u \in Workers \ {w} : Stays(u)
    BY DEF Stays, BaseInv, CallsInv
<1>2. \A u \in Workers \ {w} : CallInPlace(u)'
    BY <1>1, CallWaits
<1> QED
    BY <1>2 DEF CallsInv, BaseInv

Settled(w) ==
    CallInPlace(w)' /\ \E next \in Call : call' = [call EXCEPT ![w] = next]

LEMMA CallEnds ==
    ASSUME BaseInv, NEW w \in Workers, call' = [call EXCEPT ![w] = NewCall]
    PROVE  Settled(w)
<1>1. NewCall \in Call
    BY DEF NewCall, Call, Steps
<1> QED
    BY <1>1, CallIsNew DEF Settled, BaseInv, CallsInv

\* What has to be shown of the call a handler goes on with.
LEMMA CallGoesOn ==
    ASSUME BaseInv, Grow, NEW w \in Workers, NEW next \in Call, Continue(w, next),
           Doing(w, TypeCheckRideDistance) \/ Doing(w, TypeCheckRideWeather),
           next.step # "ride",
           Ride(w) \in Loaded, next.ride \in Export[Ride(w)],
           Doing(w, TypeCheckRideDistance) =>
              /\ next.origin => next.ride.from \in stations
              /\ next.step \in {"cache", "fetch", "save", "mark"}
                    => RouteAllowed(Pair(next.ride)),
           next.step = "mark" =>
              IF Doing(w, TypeCheckRideDistance)
              THEN Pair(next.ride) \in routes'
              ELSE weather'[Ride(w)] # Absent
    PROVE  Settled(w)
<1>1. UNCHANGED <<pc, job>> /\ call' = [call EXCEPT ![w] = next] /\ call'[w] = next
    BY DEF Continue, queueVars, BaseInv, CallsInv
<1>2. (\A type : Doing(w, type)' <=> Doing(w, type)) /\ Ride(w)' = Ride(w)
    BY <1>1 DEF Doing, Ride
<1>3. \A pair : RouteAllowed(pair) => RouteAllowed(pair)'
    BY DEF Grow, RouteAllowed
<1>4. CallInPlace(w)'
    BY <1>1, <1>2, <1>3 DEF CallInPlace, Cached, Grow, Doing
<1> QED
    BY <1>1, <1>4 DEF Settled

LEMMA FindRideSettles ==
    ASSUME BaseInv, Grow, NEW w \in Workers, FindRide(w)
    PROVE  Settled(w)
<1>1. CASE Return(w) \/ Fail(w)
    BY <1>1, CallEnds DEF Return, Fail
<1>2. CASE ~(Return(w) \/ Fail(w))
    <2> DEFINE next == [call[w] EXCEPT !.step = "origin", !.ride = rides[Ride(w)]]
    <2>1. Ride(w) \in Loaded /\ Continue(w, next)
        BY <1>2 DEF FindRide
    <2>2. rides[Ride(w)] \in Export[Ride(w)] /\ rides[Ride(w)] \in Content
        BY <2>1, ContentIsARow DEF BaseInv, TablesInv, RowsFromExports, Loaded
    <2>3. call[w] \in Call /\ CallInPlace(w) /\ call[w].step = "ride"
        BY DEF FindRide, Checking, BaseInv, CallsInv
    <2>4. /\ call[w] = NewCall /\ NewCall \in Call /\ NewCall.origin = FALSE
        BY <2>3 DEF CallInPlace, NewCall, Call, Steps
    <2>5. /\ next.step = "origin" /\ next.ride = rides[Ride(w)] /\ next.origin = FALSE
        BY <2>3, <2>4 DEF Call
    <2>6. next \in Call
        BY <2>2, <2>3 DEF Call, Steps
    <2>7. Doing(w, TypeCheckRideDistance) \/ Doing(w, TypeCheckRideWeather)
        BY DEF FindRide, Checking
    <2> HIDE DEF next
    <2> QED
        BY <2>1, <2>2, <2>5, <2>6, <2>7, CallGoesOn
<1> QED
    BY <1>1, <1>2

LEMMA FindOriginSettles ==
    ASSUME BaseInv, Grow, NEW w \in Workers, FindOrigin(w)
    PROVE  Settled(w)
<1>1. CASE Return(w)
    BY <1>1, CallEnds DEF Return
<1>2. ASSUME Doing(w, TypeCheckRideDistance) \/ Doing(w, TypeCheckRideWeather),
             NEW step \in {"destination", "fetch", "cache"}, NEW known \in BOOLEAN,
             Continue(w, [call[w] EXCEPT !.step = step, !.origin = known]),
             Doing(w, TypeCheckRideDistance) =>
                step = "destination" /\ (known => call[w].ride.from \in stations)
      PROVE  Settled(w)
    <2> DEFINE next == [call[w] EXCEPT !.step = step, !.origin = known]
    <2>1. call[w] \in Call /\ CallInPlace(w) /\ call[w].step = "origin"
        BY DEF FindOrigin, Checking, BaseInv, CallsInv
    <2>2. /\ next \in Call /\ next.ride = call[w].ride
          /\ next.step = step /\ next.origin = known
        BY <2>1 DEF Call, Steps
    <2>3. Ride(w) \in Loaded /\ next.ride \in Export[Ride(w)]
        BY <2>1, <2>2 DEF CallInPlace
    <2> QED
        BY <1>2, <2>2, <2>3, CallGoesOn
<1>3. CASE Doing(w, TypeCheckRideDistance)
    <2>1. /\ Continue(w, [call[w] EXCEPT !.step = "destination",
                             !.origin = call[w].ride.from \in stations])
          /\ (call[w].ride.from \in stations) \in BOOLEAN
        BY <1>3 DEF FindOrigin, Doing, TypeCheckRideDistance, TypeCheckRideWeather
    <2> QED
        BY <1>2, <1>3, <2>1
<1>4. CASE Doing(w, TypeCheckRideWeather) /\ ~Return(w)
    <2>1. \E step \in {"fetch", "cache"} :
             Continue(w, [call[w] EXCEPT !.step = step, !.origin = TRUE])
        BY <1>4 DEF FindOrigin, Doing, TypeCheckRideDistance, TypeCheckRideWeather
    <2>2. ~Doing(w, TypeCheckRideDistance)
        BY <1>4 DEF Doing, TypeCheckRideDistance, TypeCheckRideWeather
    <2> QED
        BY <1>2, <1>4, <2>1, <2>2
<1> QED
    BY <1>1, <1>3, <1>4 DEF FindOrigin

\* The steps that only move on.
LEMMA GoToSettles ==
    ASSUME BaseInv, Grow, NEW w \in Workers, NEW step \in Steps \ {"ride"}, GoTo(w, step),
           Doing(w, TypeCheckRideDistance) \/ Doing(w, TypeCheckRideWeather),
           call[w].step # "ride",
           (Doing(w, TypeCheckRideDistance) /\ step # "destination")
              => RouteAllowed(Pair(call[w].ride)),
           step = "mark" =>
              IF Doing(w, TypeCheckRideDistance)
              THEN Pair(call[w].ride) \in routes'
              ELSE weather'[Ride(w)] # Absent
    PROVE  Settled(w)
<1> DEFINE next == [call[w] EXCEPT !.step = step]
<1>1. call[w] \in Call /\ CallInPlace(w)
    BY DEF BaseInv, CallsInv
<1>2. /\ next \in Call /\ next.step = step
      /\ next.ride = call[w].ride /\ next.origin = call[w].origin
    BY <1>1 DEF Call
<1>3. Ride(w) \in Loaded /\ next.ride \in Export[Ride(w)]
    BY <1>1, <1>2 DEF CallInPlace
<1>4. Doing(w, TypeCheckRideDistance) =>
         /\ next.origin => next.ride.from \in stations
         /\ next.step \in {"cache", "fetch", "save", "mark"}
               => RouteAllowed(Pair(next.ride))
    BY <1>1, <1>2 DEF CallInPlace
<1>5. Continue(w, next)
    BY DEF GoTo
<1> QED
    BY <1>2, <1>3, <1>4, <1>5, CallGoesOn

LEMMA FindDestinationSettles ==
    ASSUME BaseInv, Grow, NEW w \in Workers, FindDestination(w)
    PROVE  Settled(w)
<1>1. CASE call[w].origin /\ call[w].ride.to \in stations
    <2>1. /\ GoTo(w, "cache") /\ call[w].step # "ride" /\ "cache" \in Steps
          /\ Doing(w, TypeCheckRideDistance) \/ Doing(w, TypeCheckRideWeather)
        BY <1>1 DEF FindDestination, Checking, Steps
    <2>2. Doing(w, TypeCheckRideDistance) => RouteAllowed(Pair(call[w].ride))
        BY <1>1 DEF BaseInv, CallsInv, CallInPlace, RouteAllowed, Pair
    <2> QED
        BY <2>1, <2>2, GoToSettles
<1>2. CASE ~(call[w].origin /\ call[w].ride.to \in stations)
    BY <1>2, CallEnds DEF FindDestination, Return
<1> QED
    BY <1>1, <1>2

LEMMA CacheStepsSettle ==
    ASSUME BaseInv, Grow, NEW w \in Workers,
           \/ FindCached(w) \/ Fetch(w)
           \/ Checking(w, "save") /\ SaveStatement(w) /\ GoTo(w, "mark")
    PROVE  Settled(w)
<1>1. /\ Doing(w, TypeCheckRideDistance) \/ Doing(w, TypeCheckRideWeather)
      /\ call[w].step \in {"cache", "fetch", "save"}
    BY DEF FindCached, Fetch, FetchRoute, FetchWeather, Checking
<1>2. Doing(w, TypeCheckRideDistance) => RouteAllowed(Pair(call[w].ride))
    BY <1>1 DEF BaseInv, CallsInv, CallInPlace
<1>3. CASE FindCached(w)
    BY <1>1, <1>2, <1>3, GoToSettles DEF FindCached, Cached, Steps, storeVars
<1>4. CASE Fetch(w)
    BY <1>1, <1>2, <1>4, GoToSettles DEF Fetch, FetchRoute, FetchWeather, Steps
<1>5. CASE Checking(w, "save") /\ SaveStatement(w) /\ GoTo(w, "mark")
    <2>1. CASE Doing(w, TypeCheckRideDistance)
        <3>1. Pair(call[w].ride) \in routes'
            BY <1>5, <2>1 DEF SaveStatement, SaveRoute
        <3> QED
            BY <1>1, <1>2, <1>5, <2>1, <3>1, GoToSettles DEF Steps
    <2>2. CASE ~Doing(w, TypeCheckRideDistance)
        <3>1. /\ Ride(w) \in Rides
              /\ Observed(call[w].ride) # Absent
              /\ weather' = [weather EXCEPT ![Ride(w)] = Observed(call[w].ride)]
            BY <1>1, <1>5, <2>2, CallIsOfItsRide, ContentIsARow
            DEF SaveStatement, SaveWeather
        <3>2. weather'[Ride(w)] # Absent
            BY <3>1 DEF BaseInv, TablesInv, StoreTypeOK
        <3> QED
            BY <1>1, <1>2, <1>5, <2>2, <3>2, GoToSettles DEF Steps
    <2> QED
        BY <2>1, <2>2
<1> QED
    BY <1>3, <1>4, <1>5

LEMMA HandlerSettles ==
    ASSUME BaseInv, Grow, NEW w \in Workers, HandlerStep(w)
    PROVE  Settled(w)
<1>1. CASE Return(w) \/ Fail(w) \/ CallFails(w)
    BY <1>1, CallEnds DEF Return, Fail, CallFails
<1>2. CASE FindRide(w) \/ FindOrigin(w) \/ FindDestination(w)
    BY <1>2, FindRideSettles, FindOriginSettles, FindDestinationSettles
<1>3. CASE FindCached(w) \/ Fetch(w) \/ Save(w)
    BY <1>1, <1>3, CacheStepsSettle DEF Save
<1>4. CASE LogTestMessage(w) \/ MarkChecked(w)
    BY <1>1, <1>4 DEF LogTestMessage, MarkChecked
<1> QED
    BY <1>1, <1>2, <1>3, <1>4 DEF HandlerStep

\* The queue part of a worker's step concerns that worker alone.
LEMMA OneWorkerMoves ==
    ASSUME BaseInv, NEW w \in Workers,
           WorkerStep(w) \/ ProcessStep(w) \/ FetchPanics(w) \/ Crash(w)
    PROVE  \A u \in Workers \ {w} : pc'[u] = pc[u] /\ job'[u] = job[u]
<1>1. CASE Q!HandlerOk(w) \/ Q!HandlerError(w) \/ Q!HandlerPanics(w) \/ Q!Crash(w)
    BY <1>1 DEF Q!HandlerOk, Q!HandlerError, Q!HandlerPanics, Q!Crash, Q!Dies,
        BaseInv, Q!Inv, Q!TypeOK
<1>2. CASE LoopStep(w) \/ ProcessStep(w)
    BY <1>2 DEF LoopStep, ProcessStep, Q!CheckContext, Q!PopJob, Q!PopNothing,
        Q!RecordFailure, Q!Start, Q!Terminate, BaseInv, Q!Inv, Q!TypeOK
<1>3. CASE UNCHANGED queueVars
    BY <1>3 DEF queueVars
<1>4. CASE HandlerStep(w)
    BY <1>1, <1>3, <1>4 DEF HandlerStep, LogTestMessage, FindRide, FindOrigin,
        FindDestination, FindCached, Fetch, FetchRoute, FetchWeather, Save, MarkChecked, CallFails,
        Continue, GoTo, Return, Fail
<1> QED
    BY <1>1, <1>2, <1>4 DEF WorkerStep, FetchPanics, Crash

\* Outside a handler a worker has no call.
LEMMA LoopSettles ==
    ASSUME BaseInv, Grow, NEW w \in Workers,
           LoopStep(w) \/ ProcessStep(w) \/ FetchPanics(w) \/ Crash(w)
    PROVE  Settled(w)
<1>1. CASE FetchPanics(w) \/ Crash(w)
    BY <1>1, CallEnds DEF FetchPanics, Crash
<1>2. CASE ProcessStep(w) /\ Q!Terminate(w)
    <2>1. /\ Stays(w) /\ call[w] \in Call
          /\ call' = [call EXCEPT ![w] = call[w]]
        BY <1>2 DEF ProcessStep, Q!Terminate, Stays, BaseInv, CallsInv
    <2> QED
        BY <2>1, CallWaits DEF Settled
<1>3. CASE LoopStep(w) \/ (ProcessStep(w) /\ ~Q!Terminate(w))
    <2>1. call' = call /\ pc[w] # "handling"
        BY <1>3 DEF LoopStep, ProcessStep, Q!CheckContext, Q!PopJob, Q!PopNothing,
            Q!RecordFailure, Q!Start
    <2>2. call[w] = NewCall /\ call' = [call EXCEPT ![w] = NewCall]
        BY <2>1 DEF BaseInv, CallsInv, CallInPlace
    <2> QED
        BY <2>2, CallEnds
<1> QED
    BY <1>1, <1>2, <1>3

-----------------------------------------------------------------------------
(***************************************************************************)
(* The steps put together.                                                 *)
(***************************************************************************)
LEMMA BaseInit == Init => BaseInv
<1> SUFFICES ASSUME Init PROVE BaseInv
    OBVIOUS
<1>1. Q!Inv
    BY QP!InitInv, QueueAssumption, SameQueue DEF Init
<1>2. CallsInv
    BY DEF Init, CallsInv, CallInPlace, NewCall, Call, Steps, Q!Init, Doing
<1> QED
    BY <1>1, <1>2, TodoInit, JobsInit, TablesInit DEF BaseInv, Init

LEMMA CallsStep ==
    ASSUME BaseInv, Grow, [Next]_vars
    PROVE  CallsInv'
<1>1. CASE UNCHANGED <<pc, job, call>>
    <2>1. \A w \in Workers : Stays(w)
        BY <1>1 DEF Stays
    <2>2. \A w \in Workers : CallInPlace(w)'
        BY <2>1, CallWaits
    <2> QED
        BY <1>1, <2>2 DEF CallsInv, BaseInv
<1>2. ASSUME NEW w \in Workers,
             WorkerStep(w) \/ ProcessStep(w) \/ FetchPanics(w) \/ Crash(w)
      PROVE  CallsInv'
    <2>1. Settled(w)
        BY <1>2, HandlerSettles, LoopSettles DEF WorkerStep
    <2> QED
        BY <1>2, <2>1, OneWorkerMoves, OthersWait DEF Settled
<1>3. ASSUME NEW c \in Clients,
             \/ \E command \in Commands : RunCommand(c, command)
             \/ \E task \in todo[c] : Dispatch(c, task)
             \/ PushAgain(c) \/ DispatchFails(c)
      PROVE  UNCHANGED <<pc, job, call>>
    BY <1>3 DEF RunCommand, Dispatch, PushAgain, DispatchFails, Q!Push,
        Q!PushReplyLost, Q!Resend, Q!PushFails, Q!GiveUp, Q!workerVars, queueVars
<1>4. CASE Load \/ UNCHANGED vars
    BY <1>1, <1>4 DEF Load, vars, queueVars
<1> QED
    BY <1>1, <1>2, <1>3, <1>4 DEF Next

LEMMA BaseStep == BaseInv /\ [Next]_vars => BaseInv'
<1> SUFFICES ASSUME BaseInv, [Next]_vars PROVE BaseInv'
    OBVIOUS
<1>1. TodoOK' /\ [Q!Next]_(Q!queueVars)
    BY TodoStep, StepMaps DEF BaseInv
<1>2. Q!Inv'
    <2>1. QP!Inv /\ [QP!Next]_(QP!queueVars)
        BY <1>1, SameQueue DEF BaseInv
    <2>2. QP!Inv'
        BY <2>1, QP!StepInv, QueueAssumption
    <2> QED
        BY <2>2, SameQueue, PTL
<1>3. JobsAreChecks'
    BY JobsStep DEF BaseInv
<1>4. TablesInv' /\ Grow
    BY TablesStep
<1>5. CallsInv'
    BY <1>4, CallsStep
<1> QED
    BY <1>1, <1>2, <1>3, <1>4, <1>5 DEF BaseInv

LEMMA BaseAlways == Spec => []BaseInv
BY BaseInit, BaseStep, PTL DEF Spec

LEMMA BaseGives == BaseInv => ChecksInv
BY DEF BaseInv, ChecksInv, TypeOK, TablesInv, TodoOK, CallsInv, Q!Inv

LEMMA BaseSaves == BaseInv => NoForeignKeyError
BY DEF BaseInv, CallsInv, CallInPlace, NoForeignKeyError, Checking, SaveAllowed,
       WeatherAllowed

(* The types, and the invariant that the other results rest on, hold in    *)
(* every state: each row is from an export, each list has only what the    *)
(* commands push, and what a handler found earlier still holds where it is *)
(* now (jobs.go:98-182, rides/repository.go:81-118).                       *)
THEOREM InvariantHolds == Spec => []ChecksInv
BY BaseAlways, BaseGives, PTL

(* However handlers, loads, crashes and cancelled statements interleave,   *)
(* no ride is marked as checked without the record that the check is for:  *)
(* a route for some version of its row, or an observation                  *)
(* (jobs.go:131-135, 171-181).                                             *)
THEOREM MarksAreBacked == Spec => []EnrichmentBacked
<1>1. BaseInv => EnrichmentBacked
    BY DEF BaseInv, TablesInv
<1> QED
    BY <1>1, BaseAlways, PTL

(* A weather record is always an observation for a version of its own ride *)
(* (jobs.go:171-179, weather/cached.go:37-44).                             *)
THEOREM WeatherIsItsOwn == Spec => []WeatherOfItsRide
<1>1. BaseInv => WeatherOfItsRide
    BY DEF BaseInv, TablesInv
<1> QED
    BY <1>1, BaseAlways, PTL

(* A handler never reaches a save that the foreign keys refuse: the        *)
(* stations and the ride it found are still there (jobs.go:117-131).       *)
THEOREM SavesAreAllowed == Spec => []NoForeignKeyError
BY BaseAlways, BaseSaves, PTL

(* No step, of a handler, a load or a crash, takes back a mark or a cached *)
(* row (rides/repository.go:84-90, routing/repository.go:42-59).           *)
THEOREM NothingIsUndone == Spec => ChecksAreKept
<1>1. BaseInv /\ [Next]_vars =>
         [/\ distanceChecked \subseteq distanceChecked'
          /\ weatherChecked \subseteq weatherChecked'
          /\ routes \subseteq routes'
          /\ \A r \in Rides : weather[r] # Absent => weather'[r] # Absent]_vars
    BY TablesStep DEF Grow
<1> QED
    BY <1>1, BaseAlways, PTL DEF Spec, ChecksAreKept

-----------------------------------------------------------------------------
(***************************************************************************)
(* What a handler does on the way, whoever else runs.                      *)
(***************************************************************************)
LEMMA WhoMoves ==
    ASSUME BaseInv, [Next]_vars, NEW w \in Workers
    PROVE  Stays(w) \/ HandlerStep(w) \/ call'[w] = NewCall
<1>1. Grow
    BY TablesStep
<1>2. CASE UNCHANGED <<pc, job, call>>
    BY <1>2 DEF Stays
<1>3. ASSUME NEW u \in Workers, u # w,
             WorkerStep(u) \/ ProcessStep(u) \/ FetchPanics(u) \/ Crash(u)
      PROVE  Stays(w)
    <2>1. Settled(u)
        BY <1>1, <1>3, HandlerSettles, LoopSettles DEF WorkerStep
    <2>2. pc'[w] = pc[w] /\ job'[w] = job[w]
        BY <1>3, OneWorkerMoves
    <2> QED
        BY <1>3, <2>1, <2>2 DEF Settled, Stays, BaseInv, CallsInv
<1>4. CASE FetchPanics(w) \/ Crash(w)
    BY <1>4 DEF FetchPanics, Crash, BaseInv, CallsInv
<1>5. CASE ProcessStep(w) /\ Q!Terminate(w)
    BY <1>5 DEF ProcessStep, Q!Terminate, Stays
<1>6. CASE LoopStep(w) \/ (ProcessStep(w) /\ ~Q!Terminate(w))
    <2>1. call' = call /\ pc[w] # "handling"
        BY <1>6 DEF LoopStep, ProcessStep, Q!CheckContext, Q!PopJob, Q!PopNothing,
            Q!RecordFailure, Q!Start
    <2> QED
        BY <2>1 DEF BaseInv, CallsInv, CallInPlace
<1>7. ASSUME NEW c \in Clients,
             \/ \E command \in Commands : RunCommand(c, command)
             \/ \E task \in todo[c] : Dispatch(c, task)
             \/ PushAgain(c) \/ DispatchFails(c)
      PROVE  UNCHANGED <<pc, job, call>>
    BY <1>7 DEF RunCommand, Dispatch, PushAgain, DispatchFails, Q!Push,
        Q!PushReplyLost, Q!Resend, Q!PushFails, Q!GiveUp, Q!workerVars, queueVars
<1>8. CASE Load \/ UNCHANGED vars
    BY <1>2, <1>8 DEF Load, vars, queueVars
<1> QED
    BY <1>2, <1>3, <1>4, <1>5, <1>6, <1>7, <1>8 DEF Next, WorkerStep

\* A check of the weather reads no destination, and a forced one no cache.
InOrder(w) ==
    Doing(w, TypeCheckRideWeather) =>
        /\ call[w].step # "destination"
        /\ Forced(w) => call[w].step # "cache"

\* The handler w goes on at step with the job it has.
GoesOn(w, step) ==
    /\ call'[w].step = step
    /\ pc'[w] = pc[w] /\ job'[w] = job[w]

LEMMA StepGoesOn ==
    ASSUME BaseInv, NEW w \in Workers, HandlerStep(w)
    PROVE  \/ call'[w] = NewCall
           \/ FindRide(w) /\ GoesOn(w, "origin")
           \/ /\ FindOrigin(w) /\ Doing(w, TypeCheckRideDistance)
              /\ GoesOn(w, "destination")
           \/ /\ FindOrigin(w) /\ Doing(w, TypeCheckRideWeather)
              /\ GoesOn(w, IF Forced(w) THEN "fetch" ELSE "cache")
           \/ FindDestination(w) /\ GoesOn(w, "cache")
           \/ /\ FindCached(w) /\ UNCHANGED storeVars /\ call'[w].ride = call[w].ride
              /\ GoesOn(w, IF Cached(w) THEN "mark" ELSE "fetch")
           \/ Fetch(w) /\ GoesOn(w, "save")
           \/ /\ Checking(w, "save") /\ SaveStatement(w) /\ call'[w].ride = call[w].ride
              /\ GoesOn(w, "mark")
<1>1. call[w] \in Call /\ call \in [Workers -> Call]
    BY DEF BaseInv, CallsInv
<1>2. ASSUME NEW next, Continue(w, next)
      PROVE  call'[w] = next /\ pc'[w] = pc[w] /\ job'[w] = job[w]
    BY <1>1, <1>2 DEF Continue, queueVars
<1>3. ASSUME NEW step, GoTo(w, step)
      PROVE  GoesOn(w, step) /\ call'[w].ride = call[w].ride
    BY <1>1, <1>2, <1>3 DEF GoTo, GoesOn, Call
<1>4. CASE Return(w) \/ Fail(w) \/ CallFails(w)
    BY <1>1, <1>4 DEF Return, Fail, CallFails
<1>5. CASE FindRide(w)
    <2> DEFINE next == [call[w] EXCEPT !.step = "origin", !.ride = rides[Ride(w)]]
    <2>1. next.step = "origin"
        BY <1>1 DEF Call
    <2>2. Continue(w, next) => GoesOn(w, "origin")
        BY <1>2, <2>1 DEF GoesOn
    <2> QED
        BY <1>4, <1>5, <2>2 DEF FindRide
<1>6. CASE FindOrigin(w)
    <2>1. ASSUME NEW step, NEW known,
                 Continue(w, [call[w] EXCEPT !.step = step, !.origin = known])
          PROVE  GoesOn(w, step)
        <3> DEFINE next == [call[w] EXCEPT !.step = step, !.origin = known]
        <3>1. next.step = step
            BY <1>1 DEF Call
        <3> QED
            BY <1>2, <2>1, <3>1 DEF GoesOn
    <2> QED
        BY <1>4, <1>6, <2>1 DEF FindOrigin
<1>7. CASE FindDestination(w)
    BY <1>3, <1>4, <1>7 DEF FindDestination
<1>8. CASE FindCached(w)
    BY <1>3, <1>8 DEF FindCached
<1>9. CASE Fetch(w)
    BY <1>3, <1>9 DEF Fetch, FetchRoute, FetchWeather
<1>10. CASE Save(w)
    BY <1>3, <1>4, <1>10 DEF Save
<1>11. CASE LogTestMessage(w) \/ MarkChecked(w)
    BY <1>4, <1>11 DEF LogTestMessage, MarkChecked
<1> QED
    BY <1>4, <1>5, <1>6, <1>7, <1>8, <1>9, <1>10, <1>11 DEF HandlerStep

LEMMA InOrderStep ==
    ASSUME BaseInv, [Next]_vars, NEW w \in Workers, InOrder(w)
    PROVE  InOrder(w)'
<1>1. CASE Stays(w)
    BY <1>1 DEF InOrder, Stays, Doing, Forced
<1>2. CASE call'[w] = NewCall
    BY <1>2 DEF InOrder, NewCall
<1>3. ASSUME HandlerStep(w), NEW step, GoesOn(w, step)
      PROVE  /\ call'[w].step = step
             /\ \A type : Doing(w, type)' <=> Doing(w, type)
             /\ Forced(w)' <=> Forced(w)
    BY <1>3 DEF GoesOn, Doing, Forced
<1>4. CASE HandlerStep(w)
    BY <1>2, <1>3, <1>4, StepGoesOn
    DEF InOrder, FindDestination, FindCached, Checking, Doing,
        TypeCheckRideDistance, TypeCheckRideWeather
<1> QED
    BY <1>1, <1>2, <1>4, WhoMoves

OrderInv == \A w \in Workers : InOrder(w)

LEMMA OrderAlways == Spec => []OrderInv
<1>1. Init => OrderInv
    BY DEF Init, OrderInv, InOrder, NewCall
<1>2. BaseInv /\ OrderInv /\ [Next]_vars => OrderInv'
    BY InOrderStep DEF OrderInv
<1> QED
    BY <1>1, <1>2, BaseAlways, PTL DEF Spec

LEMMA FinishIsAHandlers ==
    ASSUME BaseInv, [Next]_vars, NEW w \in Workers, Finishes(w)
    PROVE  HandlerStep(w)
<1>1. pc[w] = "handling" /\ pc'[w] = "loop" /\ pc \in [Workers -> Q!Locations]
    BY DEF Finishes, BaseInv, Q!Inv, Q!TypeOK
<1>2. ~UNCHANGED pc
    BY <1>1
<1>3. ASSUME NEW u \in Workers, u # w,
             WorkerStep(u) \/ ProcessStep(u) \/ FetchPanics(u) \/ Crash(u)
      PROVE  FALSE
    <2>1. pc'[w] = pc[w]
        BY <1>3, OneWorkerMoves
    <2> QED
        BY <1>1, <2>1
<1>4. ~LoopStep(w) /\ ~ProcessStep(w)
    BY <1>1 DEF LoopStep, ProcessStep, Q!CheckContext, Q!PopJob, Q!PopNothing,
        Q!RecordFailure, Q!Start, Q!Terminate
<1>5. ~FetchPanics(w) /\ ~Crash(w)
    BY <1>1 DEF FetchPanics, Crash, Q!HandlerPanics, Q!Crash, Q!Dies
<1>6. ASSUME NEW c \in Clients,
             \/ \E command \in Commands : RunCommand(c, command)
             \/ \E task \in todo[c] : Dispatch(c, task)
             \/ PushAgain(c) \/ DispatchFails(c)
      PROVE  UNCHANGED pc
    BY <1>6 DEF RunCommand, Dispatch, PushAgain, DispatchFails, Q!Push,
        Q!PushReplyLost, Q!Resend, Q!PushFails, Q!GiveUp, Q!workerVars, queueVars
<1>7. (Load \/ UNCHANGED vars) => UNCHANGED pc
    BY DEF Load, vars, queueVars
<1> QED
    BY <1>2, <1>3, <1>4, <1>5, <1>6, <1>7 DEF Next, WorkerStep

\* The places where a handler returns nil.
LEMMA FinishIsAReturn ==
    ASSUME BaseInv, NEW w \in Workers, Finishes(w), HandlerStep(w)
    PROVE  \/ LogTestMessage(w)
           \/ FindRide(w) /\ AlreadyChecked(w) /\ UNCHANGED storeVars
           \/ FindOrigin(w) /\ Doing(w, TypeCheckRideWeather)
                            /\ call[w].ride.from \notin stations
           \/ FindDestination(w) /\ ~(call[w].origin /\ call[w].ride.to \in stations)
           \/ MarkChecked(w)
<1>1. pc[w] = "handling" /\ pc'[w] = "loop" /\ pc \in [Workers -> Q!Locations]
    BY DEF Finishes, BaseInv, Q!Inv, Q!TypeOK
<1>2. ~UNCHANGED queueVars
    BY <1>1 DEF queueVars
<1>3. ~Q!HandlerError(w)
    BY <1>1 DEF Q!HandlerError
<1>4. ~Fail(w) /\ ~CallFails(w)
    BY <1>3 DEF Fail, CallFails
<1>5. (\A next : ~Continue(w, next)) /\ (\A step : ~GoTo(w, step))
    BY <1>2 DEF Continue, GoTo
<1> QED
    BY <1>4, <1>5 DEF HandlerStep, FindRide, FindOrigin, FindDestination, FindCached,
        Fetch, FetchRoute, FetchWeather, Save

LEMMA FinishMeansChecked ==
    ASSUME BaseInv, OrderInv, [Next]_vars, NEW w \in Workers, Finishes(w)
    PROVE  /\ Doing(w, TypeCheckRideDistance) =>
                \/ Ride(w) \in distanceChecked'
                \/ /\ call[w].step = "destination"
                   /\ ~call[w].origin \/ call[w].ride.to \notin stations
           /\ Doing(w, TypeCheckRideWeather) =>
                \/ Ride(w) \in weatherChecked'
                \/ /\ call[w].step = "origin"
                   /\ call[w].ride.from \notin stations
<1> USE DEF Doing, TypeCheckRideDistance, TypeCheckRideWeather
<1>1. CASE LogTestMessage(w)
    BY <1>1 DEF LogTestMessage, TypeLogTestMessage
<1>2. CASE FindRide(w) /\ AlreadyChecked(w) /\ UNCHANGED storeVars
    BY <1>2 DEF AlreadyChecked, storeVars
<1>3. CASE /\ FindOrigin(w) /\ Doing(w, TypeCheckRideWeather)
           /\ call[w].ride.from \notin stations
    BY <1>3 DEF FindOrigin, Checking
<1>4. CASE FindDestination(w) /\ ~(call[w].origin /\ call[w].ride.to \in stations)
    BY <1>4 DEF FindDestination, Checking, OrderInv, InOrder
<1>5. CASE MarkChecked(w)
    <2>1. Ride(w) \in Loaded
        BY <1>5 DEF MarkChecked, Checking, BaseInv, CallsInv, CallInPlace
    <2> QED
        BY <1>5, <2>1 DEF MarkChecked, MarkDistance, MarkWeather
<1> QED
    BY <1>1, <1>2, <1>3, <1>4, <1>5, FinishIsAHandlers, FinishIsAReturn

(* A handler returns nil only when the ride of its job is marked or a      *)
(* station of the row it read was unknown, however it was overtaken by     *)
(* loads, other handlers, signals and crashes (jobs.go:113-135, 153-181).  *)
THEOREM ProcessedIsChecked == Spec => ProcessedMeansChecked
<1>1. BaseInv /\ OrderInv /\ [Next]_vars =>
         [\A w \in Workers : Finishes(w) =>
            /\ Doing(w, TypeCheckRideDistance) =>
                  \/ Ride(w) \in distanceChecked'
                  \/ /\ call[w].step = "destination"
                     /\ ~call[w].origin \/ call[w].ride.to \notin stations
            /\ Doing(w, TypeCheckRideWeather) =>
                  \/ Ride(w) \in weatherChecked'
                  \/ /\ call[w].step = "origin"
                     /\ call[w].ride.from \notin stations]_vars
    BY FinishMeansChecked
<1> QED
    BY <1>1, BaseAlways, OrderAlways, PTL DEF Spec, ProcessedMeansChecked

-----------------------------------------------------------------------------
(***************************************************************************)
(* The lists that one worker drains (docker-compose.yml starts one for     *)
(* each): its handler is alone with what the cache says of its job.        *)
(***************************************************************************)
OneWorkerEach ==
    \A q \in {RideDistanceChecks, RideWeatherChecks} :
        \A u, w \in Q!ServedBy(q) : u = w

LEMMA CheckersDiffer ==
    ASSUME OneWorkerEach, BaseInv, NEW u \in Workers, NEW w \in Workers,
           NEW type \in {TypeCheckRideDistance, TypeCheckRideWeather},
           Doing(u, type), Doing(w, type)
    PROVE  u = w
<1>1. ASSUME NEW x \in Workers, Doing(x, type)
      PROVE  /\ job[x] \in CheckJob
             /\ x \in Q!ServedBy(job[x].queue)
    BY <1>1 DEF BaseInv, JobsAreChecks, Doing, Q!Inv, Q!JobsInPlace, Q!Busy
<1>2. ASSUME NEW x \in Workers, Doing(x, type)
      PROVE  job[x].queue = IF type = TypeCheckRideDistance
                            THEN RideDistanceChecks ELSE RideWeatherChecks
    <2>1. job[x] \in CheckJob /\ job[x].type = type
        BY <1>1, <1>2 DEF Doing
    <2> QED
        BY <2>1 DEF CheckJob, QueueOf, TypeLogTestMessage, TypeCheckRideDistance,
            TypeCheckRideWeather
<1> QED
    BY <1>1, <1>2 DEF OneWorkerEach

(* With one worker for each check list no upstream service is called       *)
(* concurrently, whatever the faults, resends and restarts                 *)
(* (queue.go:15-17, docker-compose.yml, jobs.go:113, 171).                 *)
THEOREM CalledOneAtATime ==
    ASSUME OneWorkerEach
    PROVE  Spec => []OneUpstreamCall
<1>1. BaseInv => OneUpstreamCall
    BY OneWorkerEach, CheckersDiffer DEF OneUpstreamCall, Checking, Doing
<1> QED
    BY <1>1, BaseAlways, PTL

\* What the cache says of the job of a handler, where it relies on it.
Alone(w) ==
    /\ (Checking(w, "fetch") /\ ~Forced(w)) => ~Cached(w)
    /\ (Checking(w, "mark") /\ Forced(w)) => weather[Ride(w)] = Observed(call[w].ride)

\* Only a save writes to the caches.
LEMMA WhoSaves ==
    ASSUME [Next]_vars
    PROVE  \/ UNCHANGED <<routes, weather>>
           \/ \E u \in Workers : Save(u) /\ SaveStatement(u)
<1>1. (Load \/ UNCHANGED vars) => UNCHANGED <<routes, weather>>
    BY DEF Load, vars, storeVars, LoadStatement, InsertStation, InsertRide, UpdateRide
<1>2. ASSUME NEW w \in Workers,
             \/ LoopStep(w) \/ ProcessStep(w) \/ FetchPanics(w) \/ Crash(w)
             \/ LogTestMessage(w) \/ FindRide(w) \/ FindOrigin(w) \/ FindDestination(w)
             \/ FindCached(w) \/ Fetch(w) \/ CallFails(w)
      PROVE  UNCHANGED storeVars
    BY <1>2 DEF LoopStep, ProcessStep, FetchPanics, Crash, LogTestMessage, FindRide,
        FindOrigin, FindDestination, FindCached, Fetch, FetchRoute, FetchWeather, CallFails
<1>3. ASSUME NEW w \in Workers, MarkChecked(w)
      PROVE  UNCHANGED <<routes, weather>>
    BY <1>3 DEF MarkChecked, MarkDistance, MarkWeather
<1>4. ASSUME NEW w \in Workers, Save(w), ~SaveStatement(w)
      PROVE  UNCHANGED storeVars
    BY <1>4 DEF Save
<1>5. ASSUME NEW c \in Clients,
             \/ \E command \in Commands : RunCommand(c, command)
             \/ \E task \in todo[c] : Dispatch(c, task)
             \/ PushAgain(c) \/ DispatchFails(c)
      PROVE  UNCHANGED storeVars
    BY <1>5 DEF RunCommand, Dispatch, PushAgain, DispatchFails
<1> QED
    BY <1>1, <1>2, <1>3, <1>4, <1>5 DEF Next, WorkerStep, HandlerStep, storeVars

LEMMA AloneWaits ==
    ASSUME OneWorkerEach, BaseInv, [Next]_vars, NEW w \in Workers,
           Alone(w), Stays(w), ~HandlerStep(w)
    PROVE  Alone(w)'
<1>1. /\ \A type : Doing(w, type)' <=> Doing(w, type)
      /\ \A step : Checking(w, step)' <=> Checking(w, step)
      /\ (Forced(w)' <=> Forced(w)) /\ Ride(w)' = Ride(w) /\ call'[w] = call[w]
    BY DEF Stays, Doing, Checking, Forced, Ride
<1>2. CASE UNCHANGED <<routes, weather>>
    BY <1>1, <1>2 DEF Alone, Cached
<1>3. ASSUME NEW u \in Workers, Save(u), SaveStatement(u)
      PROVE  Alone(w)'
    <2>1. u # w
        BY <1>3 DEF HandlerStep
    <2>2. CASE Doing(u, TypeCheckRideDistance)
        <3>1. UNCHANGED weather
            BY <1>3, <2>2 DEF SaveStatement, SaveRoute
        <3>2. ~Doing(w, TypeCheckRideDistance)
            BY <2>1, <2>2, CheckersDiffer
        <3> QED
            BY <1>1, <3>1, <3>2 DEF Alone, Cached
    <2>3. CASE ~Doing(u, TypeCheckRideDistance)
        <3>1. UNCHANGED routes /\ Doing(u, TypeCheckRideWeather)
            BY <1>3, <2>3 DEF Save, Checking, SaveStatement, SaveWeather
        <3>2. ~Doing(w, TypeCheckRideWeather)
            BY <2>1, <3>1, CheckersDiffer
        <3> QED
            BY <1>1, <3>1, <3>2 DEF Alone, Cached, Checking, Forced
    <2> QED
        BY <2>2, <2>3
<1> QED
    BY <1>2, <1>3, WhoSaves

LEMMA AloneGoesOn ==
    ASSUME BaseInv, NEW w \in Workers, InOrder(w), HandlerStep(w)
    PROVE  Alone(w)'
<1>1. ASSUME NEW step, GoesOn(w, step)
      PROVE  /\ call'[w].step = step
             /\ \A type : Doing(w, type)' <=> Doing(w, type)
             /\ (Forced(w)' <=> Forced(w)) /\ Ride(w)' = Ride(w)
    BY <1>1 DEF GoesOn, Doing, Forced, Ride
<1>2. ASSUME NEW step, step \notin {"fetch", "mark"}, call'[w].step = step
      PROVE  Alone(w)'
    BY <1>2 DEF Alone, Checking
<1>3. CASE call'[w] = NewCall
    BY <1>2, <1>3 DEF NewCall
<1>4. CASE Doing(w, TypeCheckRideWeather) /\ GoesOn(w, IF Forced(w) THEN "fetch" ELSE "cache")
    BY <1>1, <1>4 DEF Alone, Checking
<1>5. CASE /\ FindCached(w) /\ UNCHANGED storeVars /\ call'[w].ride = call[w].ride
           /\ GoesOn(w, IF Cached(w) THEN "mark" ELSE "fetch")
    <2>1. Cached(w)' <=> Cached(w)
        BY <1>1, <1>5 DEF Cached, storeVars
    <2>2. ~Forced(w)
        BY <1>5 DEF FindCached, Checking, InOrder, Forced
    <2> QED
        BY <1>1, <1>5, <2>1, <2>2 DEF Alone, Checking
<1>6. CASE /\ Checking(w, "save") /\ SaveStatement(w) /\ call'[w].ride = call[w].ride
           /\ GoesOn(w, "mark")
    <2>1. CASE Forced(w)
        <3>1. /\ Ride(w) \in Rides
              /\ weather' = [weather EXCEPT ![Ride(w)] = Observed(call[w].ride)]
            BY <1>6, <2>1, CallIsOfItsRide
            DEF SaveStatement, SaveWeather, Forced, Doing, TypeCheckRideDistance,
                TypeCheckRideWeather
        <3>2. weather'[Ride(w)] = Observed(call[w].ride)
            BY <3>1 DEF BaseInv, TablesInv, StoreTypeOK
        <3>3. Observed(call[w].ride)' = Observed(call[w].ride)
            BY <1>6 DEF Observed
        <3> QED
            BY <1>1, <1>6, <3>2, <3>3 DEF Alone, Checking
    <2>2. CASE ~Forced(w)
        BY <1>1, <1>6, <2>2 DEF Alone, Checking
    <2> QED
        BY <2>1, <2>2
<1>7. CASE GoesOn(w, "origin") \/ GoesOn(w, "destination") \/ GoesOn(w, "cache")
           \/ GoesOn(w, "save")
    BY <1>1, <1>2, <1>7
<1> QED
    BY <1>3, <1>4, <1>5, <1>6, <1>7, StepGoesOn

AloneInv == \A w \in Workers : Alone(w)

LEMMA AloneAlways ==
    ASSUME OneWorkerEach
    PROVE  Spec => []AloneInv
<1>1. Init => AloneInv
    BY DEF Init, Q!Init, AloneInv, Alone, Checking, NewCall
<1>2. ASSUME BaseInv, OrderInv, AloneInv, [Next]_vars, NEW w \in Workers
      PROVE  Alone(w)'
    <2>1. CASE HandlerStep(w)
        BY <1>2, <2>1, AloneGoesOn DEF OrderInv
    <2>2. CASE Stays(w) /\ ~HandlerStep(w)
        BY <1>2, <2>2, OneWorkerEach, AloneWaits DEF AloneInv
    <2>3. CASE call'[w] = NewCall
        BY <2>3 DEF Alone, Checking, NewCall
    <2> QED
        BY <1>2, <2>1, <2>2, <2>3, WhoMoves
<1>3. BaseInv /\ OrderInv /\ AloneInv /\ [Next]_vars => AloneInv'
    BY <1>2 DEF AloneInv
<1> QED
    BY <1>1, <1>3, BaseAlways, OrderAlways, PTL DEF Spec

(* With one worker for each check list an upstream service is only asked   *)
(* for what the cache does not have, also when the answer arrives: of the  *)
(* jobs that wait for one pair of stations or one ride only the first      *)
(* fetches (routing/cached.go:20-39, weather/cached.go:26-37).             *)
THEOREM NothingFetchedTwice ==
    ASSUME OneWorkerEach
    PROVE  Spec => NoRefetch
<1>1. AloneInv => [\A w \in Workers :
                     (Checking(w, "fetch") /\ ~Forced(w) /\ Checking(w, "save")')
                         => ~Cached(w)]_vars
    BY DEF AloneInv, Alone
<1> QED
    BY <1>1, AloneAlways, PTL DEF NoRefetch

(* With one worker for the weather list a forced check that ends as        *)
(* processed leaves the observation for the row it read, whatever was in   *)
(* the table (dispatch.go:62, weather/cached.go:26-46).                    *)
THEOREM ForcedIsFresh ==
    ASSUME OneWorkerEach
    PROVE  Spec => ForcedRefresh
<1>1. ASSUME BaseInv, AloneInv, [Next]_vars, NEW w \in Workers,
             Finishes(w), Forced(w), call[w].step = "mark"
      PROVE  weather'[Ride(w)] = Observed(call[w].ride)
    <2>1. Checking(w, "mark")
        BY <1>1 DEF Checking, Forced
    <2>2. weather[Ride(w)] = Observed(call[w].ride)
        BY <1>1, <2>1 DEF AloneInv, Alone
    <2>3. MarkChecked(w)
        BY <1>1, FinishIsAHandlers, FinishIsAReturn
        DEF FindRide, FindOrigin, FindDestination, Checking, Forced, Doing, LogTestMessage,
            TypeLogTestMessage, TypeCheckRideWeather
    <2>4. UNCHANGED weather
        BY <2>3 DEF MarkChecked, MarkDistance, MarkWeather
    <2> QED
        BY <2>2, <2>4
<1>2. BaseInv /\ AloneInv /\ [Next]_vars =>
         [\A w \in Workers :
             (Finishes(w) /\ Forced(w) /\ call[w].step = "mark")
                 => weather'[Ride(w)] = Observed(call[w].ride)]_vars
    BY <1>1
<1> QED
    BY <1>2, BaseAlways, AloneAlways, PTL DEF Spec, ForcedRefresh

-----------------------------------------------------------------------------
(***************************************************************************)
(* Where the findings end.                                                 *)
(***************************************************************************)
(* What a checked ride has belongs to its row when no export brings a      *)
(* second version of a ride: only a load that changes a ride between or    *)
(* after its checks leaves it with an enrichment for another row           *)
(* (rides/repository.go:84-97).                                            *)
THEOREM CurrentWithoutNewVersions ==
    ASSUME \A r \in Rides : \A x, y \in Export[r] : x = y
    PROVE  Spec => []EnrichmentIsCurrent
<1>1. BaseInv => EnrichmentIsCurrent
    <2> SUFFICES ASSUME BaseInv PROVE EnrichmentIsCurrent
        OBVIOUS
    <2>1. /\ distanceChecked \cup weatherChecked \subseteq Loaded
          /\ Loaded \subseteq Rides
          /\ \A r \in Loaded : rides[r] \in Export[r]
        BY DEF BaseInv, TablesInv, RowsFromExports, Loaded
    <2>2. ASSUME NEW r \in distanceChecked
          PROVE  Pair(rides[r]) \in routes
        BY <2>1, <2>2 DEF BaseInv, TablesInv, EnrichmentBacked
    <2>3. ASSUME NEW r \in weatherChecked
          PROVE  weather[r] = Observed(rides[r])
        BY <2>1, <2>3 DEF BaseInv, TablesInv, EnrichmentBacked, WeatherOfItsRide
    <2> QED
        BY <2>2, <2>3 DEF EnrichmentIsCurrent
<1> QED
    BY <1>1, BaseAlways, PTL

LEMMA HandlerEnds ==
    ASSUME "panic" \notin FaultKinds, "crash" \notin FaultKinds,
           BaseInv, [Next]_vars, NEW w \in Workers,
           pc[w] = "handling", pc'[w] # "handling"
    PROVE  job[w].id \in processed' \/ pc'[w] = "recording"
<1>1. [Q!Next]_(Q!queueVars)
    BY StepMaps DEF BaseInv
<1>2. pc \in [Workers -> Q!Locations]
    BY DEF BaseInv, Q!Inv, Q!TypeOK
<1>3. ASSUME NEW u \in Workers, Q!WorkerStep(u) \/ Q!ProcessStep(u)
      PROVE  job[w].id \in processed' \/ pc'[w] = "recording"
    <2>1. u = w
        BY <1>2, <1>3
        DEF Q!WorkerStep, Q!ProcessStep, Q!CheckContext, Q!PopJob, Q!PopNothing,
            Q!HandlerOk, Q!HandlerError, Q!RecordFailure, Q!Start, Q!Terminate,
            Q!HandlerPanics, Q!Crash, Q!Dies
    <2>2. ~Q!HandlerPanics(w) /\ ~Q!Crash(w)
        BY DEF Q!HandlerPanics, Q!Crash, Q!Fault
    <2>3. Q!HandlerOk(w) \/ Q!HandlerError(w)
        BY <1>2, <1>3, <2>1, <2>2
        DEF Q!WorkerStep, Q!ProcessStep, Q!CheckContext, Q!PopJob, Q!PopNothing,
            Q!RecordFailure, Q!Start, Q!Terminate
    <2> QED
        BY <1>2, <2>3 DEF Q!HandlerOk, Q!HandlerError
<1>4. (\E c \in Clients : Q!ClientStep(c)) => UNCHANGED pc
    BY DEF Q!ClientStep, Q!Push, Q!PushReplyLost, Q!PushFails, Q!Resend, Q!GiveUp, Q!workerVars
<1>5. UNCHANGED Q!queueVars => UNCHANGED pc
    BY DEF Q!queueVars, Q!workerVars
<1> QED
    BY <1>1, <1>3, <1>4, <1>5 DEF Q!Next

(* Every run of a handler ends as processed or is recorded as failed, as   *)
(* long as no handler panics and no process is killed: the index out of    *)
(* range of weather/openmeteo.go and a kill are the only ways out of       *)
(* worker.run that leave no trace (worker.go:70-89).                       *)
THEOREM RecordedWithoutCrash ==
    ASSUME "panic" \notin FaultKinds, "crash" \notin FaultKinds
    PROVE  Spec => FailuresAreRecorded
<1>1. BaseInv /\ [Next]_vars =>
         [\A w \in Workers :
             (pc[w] = "handling" /\ pc'[w] # "handling")
                 => job[w].id \in processed' \/ pc'[w] = "recording"]_vars
    BY HandlerEnds
<1> QED
    BY <1>1, BaseAlways, PTL DEF Spec, FailuresAreRecorded
=============================================================================
