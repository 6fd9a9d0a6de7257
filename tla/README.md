# Velo Stats in TLA+

Models of Velo Stats, the Go service in `src/`: the Redis queue and its workers,
the jobs that look up a distance and the weather of every ride, the loads of
stations and rides, the migration that every process runs first, the API server
from its settings to its shutdown, and what the API computes. TLC checks the
models on small instances and TLAPS proves their safety properties for all values
of the constants.

## The system

One binary, `velo`, runs as several processes that share one SQLite file and one
Redis: the API (`serve`), three workers (`work -queue=...`, one for each list in
`docker-compose.yml`), and the console commands that a user runs.

| Component | State | Operations | Talks to |
|---|---|---|---|
| queue (`internal/queue`) | the Redis lists; in a worker the popped job and the context; the table `failed_jobs` | `Push`, `Pop`, `Worker.Run`, `run`, `recordFailure` | Redis, SQLite, the handlers |
| jobs (`internal/jobs`) | locals of a running handler | `CheckRideDistance`, `CheckRideWeather`, `LogTestMessage`, the `Dispatch...` | queue, rides, stations, routing, weather |
| routing, weather | tables `station_routes`, `weather_records` | cached `GetRoute` and `GetWeather`, `Find`, `Save` | SQLite, OSRM, Open-Meteo |
| rides, stations | tables `rides`, `stations` | `Find`, `Save`, `IDs`, `MarkChecked`, the export and the feed; `All`, the summary, the cost | SQLite, the GBFS feed |
| console | locals of a running command | `rides:check-*`, `tasks:dispatch-test`, `*:load`, `work`, `serve` | all of the above |
| database | the schema, the table `migrations`, the one connection of a process | `Open`, `Migrate` | SQLite |
| httpapi | the requests in progress | `Router`, `cors`, five GET endpoints | rides, stations |
| config, app | the settings of a process | `Load`; `New`, `Close`, the signal context | the environment, `.env` |
| support | none | rounding, dates, JSON | |

What is hard:

- *Interleaving.* No operation runs in a transaction of more than one statement.
  Handlers, commands and loads of different processes interleave between any two
  statements, and between the upstream call of a handler (up to ten seconds) and
  what it does with the answer.
- *Crashes.* A job that a worker has popped is nowhere but in that process. The
  record and the mark of a check are two statements.
- *Delivery.* go-redis sends a command again when its reply is lost.
- *Shutdown.* SIGTERM cancels a context that some calls look at (handlers, `Pop`)
  and some do not (`recordFailure`). `ListenAndServe` returns when a shutdown
  begins, so `serve` closes the database with requests in progress.
- *Start.* All processes migrate the same file at the same time.
- *One connection.* All requests of the API share it, and clients read slowly.
- *Boundaries.* Days, ISO weeks, midpoints of a rounding, rides of no duration,
  aggregates over nothing.

What makes each component correct: the queue loses no job without a fault, runs
none twice and none concurrently on a list of one worker; a check never marks a
ride without its record, never asks upstream for what the cache has and keeps
what it did; the loads upsert; a command only runs on the whole schema; the server
never keeps its connection, ends when told to and answers what it let in until
then; the figures are those of a calendar and of the listed rides.

## Modules

| Module | Models | |
|---|---|---|
| `JobLifecycle` | what the queue promises of a job | abstract: no lists, no workers |
| `JobQueue` | `queue.go`, `worker.go` | the lists, the clients that push, the worker loop; implements `JobLifecycle`. A handler is left open: it succeeds, fails or panics |
| `Store` | the tables and their statements (`*/repository.go`, the migrations) | one operator for each statement; no behaviour of its own |
| `RideChecks` | `jobs.go`, `console/dispatch.go`, `routing/cached.go`, `weather/cached.go`, with the two services | composes `JobQueue` (as `Q`) and `Store`: a step is a step of the queue, a statement or an upstream call |
| `Loading` | `console/load.go`, the two `Save`s, `source.go`, `service.go` | loaders over `Store` |
| `Migrations` | `database.Migrate`, `app.New` | processes that start, migrate, fail and start again |
| `Settings` | `config.go` | operators from an environment and a file to the settings |
| `Server` | `console/serve.go`, `httpapi`, `main.go`, the connection of `database.Open` | the process and its requests; extends `Settings` |
| `Figures` | `rides.All`, `resource.go`, `summary.go`, `cost.go`, `round.go` | the three answers over one content of the tables |
| `MC...` | | instances for TLC |
| `FiniteTheorems` | | lemmas on sums, extremes and least elements of finite sets |
| `...Proofs` | | theorems |

### JobQueue and JobLifecycle

`queues` are the lists, `pc[w]` is where a worker is in `Worker.Run` (`loop`: top
of the loop, `popping`: in `Pop`, `handling`: in the handler, `recording`: in
`recordFailure`), `job[w]` the popped job, `ctxDone[w]` whether it got SIGTERM.
`unanswered[c]` is a push that Redis executed and whose reply was lost: the client
sends it again (`Resend`) or gives up (`GiveUp`). `resent` is a history variable:
the properties that a second push breaks are about the other jobs. `processed` is
what the log says, `failedJobs` the table. An id is a counter; the code draws 128
random bits, so ids that collide are left out. `Dies` is the end of a process by a
panic or a kill.

`IsNext` is BLPOP: the head of the first list, in the order of the flag, that has
one. `PopNothing` collects the ways back to the top of the loop without a job, and
a pop whose reply is lost, which removes a job that nobody runs. As BLPOP keeps to
the order of its keys, jobs that are pushed onto the first list of a worker again and
again hold back those of its later lists for ever. `JobsAreTaken` and `JobsSettle`
therefore let a worker off that turned to a list before (`Overtaken`); on its first
list, and on the only one of each worker in `docker-compose.yml`, a job always gets its
turn.

`JobLifecycle` has the jobs as sets: a job is issued, waits, is taken once and is
settled, processed or recorded as failed, or a fault loses it; a job that its
client sends again may be at several stages. `Life` in `JobQueue` maps the lists to
`waiting`, what workers hold to `running`, the log and the table to `settled`.

### Store, RideChecks

`Store` keeps of a row what the jobs act on: the stations and the check-in of a
ride (`Content`), whether its two marks are set, which station pairs have a route,
what each weather record observed. `InsertRide`, `UpdateRide`, `MarkDistance`,
`SaveRoute` and so on are one statement each, with the foreign keys as
`RouteAllowed` and `WeatherAllowed`.

In `RideChecks`, `call[w]` is how far the handler that `w` runs has come and what it
read: `ride` (before `rides.Find`), `origin`, `destination`, `cache`, `fetch`,
`save`, `mark`. The upstream call takes a step of its own, so anything may happen
while it is under way. `CallFails` is any statement or call that returns an error
because of a fault or because SIGTERM cancelled it; `Save` and `MarkChecked` may
also fail after they were committed. `todo[c]` is what a command still has to push.
`Load` is one statement of a load, any that an export allows; `Loading` shows that
loads do no more (`LoadSpec`).

### Loading

Each loader runs one command: fetch, then for each row an UPDATE and, if that
matched nothing, an INSERT. Another loader may come in between; the second INSERT
is then refused and ends its command (`conflict`). A command may be interrupted
anywhere, also when its statement was committed.

`since[p]` is a history variable: the other loads of the table of `p` that were
running when `p` began or have begun since. A load with an empty `since` ran alone and
is the latest; `LastEntryWins` is about these, and `rows` of earlier loads may be in the
tables when it begins. `ConflictsNeedOverlap` blames a conflict on a load in `since`
that wrote the same row (`Wrote`), so a load that had ended before cannot be the cause.

### Migrations

A process checks whether a file was recorded, executes its statements one by one
and records it; it may fail anywhere and is started again. The statements are all
`IF NOT EXISTS`.

### Settings, Server

A value in `Settings` is the sequence of its parts between commas, with their spaces;
`Blank` is the part of no character and `Trimmed` takes the spaces off. The empty value
is `<<Blank>>` and gives way to the default; one of only spaces or commas does not
(`env` compares, `splitAndTrim` trims) and allows no origin. `LoadDotEnv` goes through the lines of `.env` and `Load` is what a
process makes of both. Of the settings, those are there that the server acts on.

`main` in `Server` is where the main goroutine is: `down`, `loaded` (after
`config.Load`), `starting` (after `app.New` and `NotifyContext`), `serving`,
`closing` (the deferred calls are next), `closed` (the database is). `Shutdown` is
the goroutine that waits for the signal; it may come before `Listen`. `stage[c]` is
where the request of a client is: `routing` (`cors` and the mux), `waiting` for the
connection `conn`, `querying`, `writing` its answer. `Written` ends it when its
client has read it, which may be never; `Leave` cancels its context. Nothing waits
for requests when `ListenAndServe` returns: `CloseDatabase` and `Exit` may come at
any stage of them.

### Figures

Times are seconds since a Monday that begins a cycle of the calendar, amounts are
cents, the two columns of `station_routes` are integers of tenths, as OSRM answers,
every other number that is computed is an integer of hundredths or `Null`. The loop of
`Calculate` is a step for each row (`Row`), in any order of the rows; `Index` and
`Summary` are one SELECT each and one step. A quotient is rounded in floats by the
code and exactly here: `Nearest` is the set of the hundredths that a float near the
quotient may be rounded to, one but for a midpoint, and `Money` takes the even one
where the midpoint is exact as a float: an odd number of eighths, as the 0.125 of
`round.go`. Quotients of tenths are not exact in floats and either neighbour of a
midpoint is accepted. `TotalDistanceMeters` is a sum of floats that is not rounded; its
noise in the last digits is left out.

Operators whose comment begins with "Mutant of" are changed forms of a definition,
with a plausible mistake in it. They occur in no specification. Each property of a
passing run has one that it must reject; `PROJECT.json` pairs them.

## Runs

| Run | Instance | Shows |
|---|---|---|
| `queue` | a worker on two lists next to one on the first of them, 2 clients, 2 jobs of 2 types, 2 faults of 7 kinds | `Inv`; `OneAtATime`, also with duplicates; `RunOnce`, `InPushOrder`, `Accounted`; `Lifecycle`: it implements `JobLifecycle`; `StopsOnSignal`, `JobsAreTaken` |
| `checks_distance` | 2 rides with 2 versions each, 2 stations, 1 fault | `ChecksInv`, `EnrichmentBacked`, `NoForeignKeyError`, `NoRefetch`, `ChecksAreKept`, `ProcessedMeansChecked` |
| `checks_weather` | 3 normal and forced jobs of a ride with 2 versions, 1 fault | `WeatherOfItsRide`, `NoRefetch`, `ForcedRefresh` |
| `checks_services` | a worker of default and weather jobs next to the distance worker, 3 commands, failing calls | `OneUpstreamCall`; `QueueSpec` and `QueueFairSpec`: the handlers implement `JobQueue` and the fairness it assumes; `JobsSettle` |
| `loads` | two loads of rides and two of stations, at once or in turn, with 2 exports, 1 interruption | `LoadingInv`, `LastEntryWins`, `CreatedAreRows`, `ConflictsNeedOverlap`, `LoadSpec`, `LoadsEnd` |
| `migrate_race` | 3 processes, 2 files with 1 and 2 statements, 2 failures | `MigrationsInv`, `ReadySeesSchema`, `RecordsAreBounded`, `MigrateEnds` |
| `serve` | 2 clients with 4 requests, 4 environments and 5 files, 1 fault of 4 kinds | `ServerInv`, `ErrorsHaveCause`, `CorsFollowsSettings`, `CutOffOnlyBySignal`, `WaitersGetOn`, `EndsOnSignal` |
| `figures` | up to 3 rides at 7 moments, 3 route tables, all orders of the rows | `PeriodAndPasses`, `PricesAddUp`, `ListAddsUp` |

Four runs end in a violation, where the code does not do what the repository says:

| Run | Property | What happens |
|---|---|---|
| `queue_run_once` | `JobsRunOnce` | a push is sent again after its reply was lost and the job runs twice; `worker.go:91` "Jobs are run once and are not retried" |
| `checks_current` | `EnrichmentIsCurrent` | a later export changes a checked ride, which keeps its marks and its record; `README.md:6-7` "the cycling distance between its two stations", "the weather at its origin station and checkin time" |
| `checks_panic` | `FailuresAreRecorded` | a malformed weather response panics and ends the worker; `README.md:149` "a failure is logged and recorded in the `failed_jobs` table" |
| `load_conflict` | `NoConflict` | two loads at once insert the same ride; `README.md:109` "upserts it into the database" |

### Bounds

`MaxJobs` bounds the ids that are issued, `MaxFaults` the faults, `FaultKinds`
which of them; `Commands` and `Export` choose what is run and loaded. Two jobs on a
list are enough for an order to go wrong, two rides with the same stations for a
cached route to be met, two versions of a row for a stale read, and one fault for
each point at which a process can stop; the queue run allows two, so that a fault
meets the recovery from another. Runs of `RideChecks` are split by subject because
their product is out of reach: each one keeps the workers and the commands that
concern it. A command may be run any number of times until `MaxJobs` is reached.

The two check runs over `Corrected` allow a change of a row at any moment; those
over `Stable` load a row once. In `serve`, two clients are one that holds the
connection or does not read and one that waits; a process may end and start again
with other settings without bound. In `figures` the moments are the ends of a leap
year of 53 ISO weeks and of its last week, a period of 96 days, which for two rides has
7.625 EUR a ride, an exact midpoint whose even cent is the lower, and two days of different years in one ISO week; the rides take 754
seconds, no time and less than none; the bound is that each request is made once.
Deadlock is checked except in `Loading` and `Figures`, where commands and requests
come to their end.

### Fairness

Of the queue only the goroutine of a worker is fair: `WF(WorkerStep(w))`. It has no
wait without a limit: BLPOP has a timeout of a second, an upstream call of ten, a
statement the busy timeout. Pushing, starting a process, signals and faults are
not fair. `FetchPanics` and `Crash` are faults and no part of `WorkerStep`. A load
and a migration are straight-line code in one goroutine and are fair while their
process lives.

In `Server` the main goroutine, the one of `Shutdown` and each handler are weakly
fair. `Query` is strongly fair: the connection comes and goes, and `database/sql`
hands a free one to a waiting request that it picks at random, so none is passed
over for ever. `Written`, `Arrive`, `Leave`, `Signal` and `Start` are up to others
and not fair, so `WaitersGetOn` and `EndsOnSignal` hold although a client may
never read its answer.

## Proofs

All by TLAPS. Every safety property of the passing runs, invariants and action
properties, is proved, and so are the refinements `Lifecycle`, `QueueSpec` and
`LoadSpec`: for any number of clients, workers, lists, rides, stations, versions and
faults, from the assumptions that the modules name, three of them (`OneUpstreamCall`,
`NoRefetch`, `ForcedRefresh`) also from one worker for each check list. The
assumptions are

- `JobQueueAssumption`, `RideChecksAssumption`: a finite number of workers, each with
  a sequence of lists, known kinds of faults and commands, exports of rows;
- `StoreAssumption`: `Absent` is no row;
- `LoadingAssumption`: a finite number of loads of sequences of rows;
- `MigrationsAssumption`: finitely many processes, a sequence of files;
- `ServerAssumption`: finitely many clients, requests with a method and a path, a
  `.env` that is a sequence of lines;
- `FiguresAssumption`: finitely many rides, whose ids and durations are integers, as
  the tenths of meters of a route are, and whose checkouts are not before the moment
  that times are counted from; a ride may end before it begins.

TLC evaluates each of them on the instances of the runs.

- `JobQueueProofs`: `TypeAndPlace` proves `Inv`, which is inductive: types, a worker
  holds a job exactly in `handling` and `recording`, each list has only its own jobs,
  a worker only jobs of lists that it serves. `Exclusive` (`OneAtATime`) follows:
  two holders of jobs of one list both serve it. `NoRequeue` is proved on each
  step: only `Push`, which issues a new id, and `Resend` append.
- `JobLifecycleProofs`, of the abstract specification: `AtOneStage`, and
  `NoneLostInSilence`, which counts the missing jobs step by step.
- `JobQueueProofs` again: neither `RunOnce` nor `InPushOrder` is inductive. `IdsInv` adds
  that every id was issued and that one not sent again occurs once in all lists,
  workers and results together (`InOnePlace`); `AppendIdsInv`, `TakeIdsInv` and
  `ReleaseIdsInv` carry it over a push, a pop and the end of a run. From it come
  `RunsOnce`, `FirstInFirstOut` and, with `Inv`, `ImplementsLifecycle`: every step is
  a step of `JobLifecycle` or a stutter. `NoJobLostInSilence` (`Accounted`) is then
  the theorem about `JobLifecycle`, through the refinement; without faults it says
  that every pushed job is somewhere, whatever signals come
  (`NothingLostWithoutFaults`).
- `RideChecksProofs`: `ImplementsQueue` maps every step to one of `JobQueue` or to a
  stutter, given that `todo` has only tasks. What is proved of the queue with any
  client and any handler thus holds of the commands and the checks (`ChecksAreJobs`:
  `OneAtATime`, `RunOnce`, `InPushOrder` and `Accounted`).
  `EnrichmentBacked` is not inductive: a mark is set by a handler that found or saved
  the record some steps earlier. `ChecksInv` adds what a handler in each place of its
  code may rely on (`CallInPlace`), that rows come from exports, and that lists have
  only what commands push. The lemma behind it is `Grow`: no step takes a station, a
  ride, a mark, a route or a record away, so what a waiting handler found stays
  (`CallWaits`), and only the step of the handler itself is to be examined
  (`HandlerSettles`). From it: `InvariantHolds`, `MarksAreBacked`, `WeatherIsItsOwn`,
  `SavesAreAllowed`, `NothingIsUndone`. `ProcessedIsChecked` follows from
  the steps at which a handler may finish (`FinishIsAReturn`) and `OrderInv`, the
  places that a check of the weather never comes to.
- Also there, under `OneWorkerEach` (each check list has one worker, as in
  `docker-compose.yml`): `CalledOneAtATime` (`OneUpstreamCall`) from `Exclusive`, as
  the type of a job determines its list; `NothingFetchedTwice` and `ForcedIsFresh`
  from `AloneInv`, that what a handler read of the cache, or saved in it, still holds
  because nobody else writes it.
- `LoadingProofs`: `SavedStaysSaved` proves `LoadingInv`, which is inductive since no
  statement removes a row; `TheLastEntryStays` (`LastEntryWins`) needs it, and
  that the row being saved exists when its UPDATE matched. `OnlyOverlapsConflict` and
  `TurnsNeverConflict` need what a load remembers: while the row it inserts was missing
  at its UPDATE, whoever put it there since is a load in `since` that wrote it.
  `LoadsImplementLoadSpec` maps every step to a statement that `RideChecks` allows.
  `CreatedRowsAddUp` (`CreatedAreRows`) compares a step's change of the sum of the
  counters with its change of the tables (`StepAccounts`): only an INSERT adds a row,
  and only a committed one that was cancelled goes uncounted.
- `MigrationsProofs`: `Migrated` proves `MigrationsInv`: what is recorded, and what a
  process has gone past in the loop and in its file, is there. `ReadyOnTheSchema`
  follows. `RecordedOnceEach` needs `BoundInv`: the rows of a file and the processes
  that may still record it are together no more than the processes.
- `ServerProofs`: `ServerIsSound` proves `ServerInv`, `NoneCutOffWithoutSignal` follows
  from it, and `EveryErrorHasACause` counts the failed answers of clients that are
  still there, of which each step adds at most one and only with a fault.
  `CorsIsAsSet` (`CorsFollowsSettings`) shows that reading `.env` line by line
  (`LoadDotEnv`) amounts to what `Effective` says without a loop, the environment
  first and else the first line with the key (`LinesAreRead`, `KnownInTheEnd`,
  `EnvIsEffective`), then that no step gives or takes the header.
- `FiguresProofs`: `PeriodIsRight` and `PricesAreRight`, for all tables and all orders
  of the rows. `CostInv` is the invariant of the loop: `first` and `last` bound the
  rows gone through and are among the checkouts, `rideDays` and `rideWeeks` are theirs.
  The weeks need that the ISO weeks of two days are equal exactly when the weeks from
  Monday to Sunday are. `ListIsRight` (`ListAddsUp`) rests on `StoryInv`, that the list
  is one of the tables' rows in an order of the query and the summary one of the same
  rows: a listed ride is then one position (`EntriesAreRows`), a sum over rides the
  sum over positions (`SumReindexed`), and a rounded mean near the quotient
  (`AveragesAreNear`). `MoneyIsEven` shows that at an odd number of eighths the even
  cent is taken.
- `FiniteTheorems`: sums over finite sets (`SumOver`) and their laws, extremes, and the
  least element of a set of numbers. The provers cannot instantiate the library's
  induction theorems, which take an operator, but a least counterexample is a set: in
  a set of subsets or of positions at which a statement fails, take a least one
  (`LeastSubset`, `LeastNumber`). In this way the folds and the recursive function of
  `LoadDotEnv` are reasoned about for all inputs.

Three of the four findings are delimited by a theorem that says what they take, and
the fourth by two:

| Finding | Does not occur | Theorem |
|---|---|---|
| `JobsRunOnce` | when no reply to a push is lost | `RunsOnceWithoutResend` |
| `EnrichmentIsCurrent` | when exports have one version of each ride | `CurrentWithoutNewVersions` |
| `FailuresAreRecorded` | when no handler panics and no process is killed | `RecordedWithoutCrash` |
| `NoConflict` | when no load of that table that runs meanwhile writes the same row; when the loads of each table take turns | `OnlyOverlapsConflict`, `TurnsNeverConflict` |

Only model-checked: every liveness property (`JobsAreTaken`, `StopsOnSignal`,
`QueueFairSpec`, `JobsSettle`, `LoadsEnd`, `MigrateEnds`, `WaitersGetOn`,
`EndsOnSignal`), as fairness and ENABLED are out of the prover's reach, and that no
state is a deadlock.

## Not modelled

Redis is taken to keep its lists, SQLite to execute one statement atomically and to
enforce keys, and a cancelled context to end a call. Ids never collide. The
decoding of a job or payload that the program itself encoded does not fail. An
answer of OSRM or Open-Meteo is a success, an error or, for Open-Meteo, arrays of
different lengths; how the code tells errors apart only chooses their text. The
numbers of an observation, and of a station what its row says besides its id, are
left out. The figures of a ride's resource that are only copied from its row are
too; fields of an amount that is
not a number do not occur. Formatting of JSON and dates, flags, usage texts and
logging change no state. The settings that the server does not act on are read by
the same functions as those that it does. `testsupport` has fakes for the tests.

## Plan

Done: the core (`JobQueue`, `Store`, `RideChecks`, `Loading`, `Migrations`), then
`JobLifecycle` with its refinement, `Server` with `Settings`, `Figures`, and a proof
of every safety property that a run checks.

Left:

1. Open-Meteo's responses as `openmeteo.go` classifies them, with the hour that it
   picks for a check-in, and OSRM's, in place of success and error.
2. Larger instances of `RideChecks`: both check workers with faults of all kinds.
3. Abstract specifications of a load (all or a prefix of the last entries) and of the
   server (a request is answered, left or cut off), with their refinements proved.
