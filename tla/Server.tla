------------------------------- MODULE Server -------------------------------
(***************************************************************************)
(* The process "velo serve": its start and end (main.go run, console/      *)
(* serve.go, app.go Close), the handlers of the JSON API (httpapi), and    *)
(* the one database connection that they share (database.go Open).         *)
(*                                                                         *)
(* A client has one request at a time.  The handlers read only; what they  *)
(* read is left out.  net/http and database/sql are external: a listener   *)
(* that is closed lets no request in, a waiting query gets the connection  *)
(* when it is free, and a connection in use outlives the Close of its DB.  *)
(***************************************************************************)
EXTENDS Settings, FiniteSets, Naturals

CONSTANTS
    Clients,
    Nobody,
    Sends,         \* the requests that clients send
    Environments,  \* the environments a process may be started in
    Files,         \* the contents of .env, sequences of lines
    FaultKinds,
    MaxFaults      \* bound: how many of them

Methods == {"GET", "HEAD", "POST", "OPTIONS"}

\* The paths of Router that read tables, and the other paths, of which
\* "/rides//cost" is one that ServeMux redirects to its clean form.
TablePaths == {"/rides", "/rides/summary", "/rides/cost", "/stations"}
Paths      == TablePaths \cup {"/_healthcheck", "/rides//cost", "/"}

AllFaultKinds ==
    { "start",      \* the database cannot be opened or migrated
      "listen",     \* the port is taken
      "statement",  \* a query fails
      "kill" }      \* SIGKILL, or a signal before or after it is listened for

ASSUME ServerAssumption ==
    /\ Nobody \notin Clients
    /\ IsFiniteSet(Clients)
    /\ \A lines \in Files : lines \in Seq({lines[i] : i \in DOMAIN lines})
    /\ \A request \in Sends : request.method \in Methods /\ request.path \in Paths
    /\ FaultKinds \subseteq AllFaultKinds
    /\ MaxFaults \in Nat

VARIABLES
    main,     \* where the main goroutine is
    setup,    \* what the process found when it started
    config,   \* what it made of that
    ctxDone,  \* is the signal context cancelled
    shut,     \* has Shutdown begun: the listener is closed
    conn,     \* the client whose handler has the database connection
    stage,    \* stage[c]: how far the handler of c has come
    call,     \* call[c]: the request of c
    status,   \* status[c]: the status that is written
    allow,    \* the clients whose answer has the CORS headers
    gone,     \* the clients that closed their connection meanwhile
    faults

processVars == <<main, setup, config, ctxDone, shut>>
requestVars == <<stage, call, status, allow, gone>>
vars        == <<processVars, conn, requestVars, faults>>

Fault(kind) ==
    /\ kind \in FaultKinds
    /\ faults < MaxFaults
    /\ faults' = faults + 1

LoadSetup(found) == Load(found.environment, found.lines)

Init ==
    /\ main = "down"
    /\ setup \in [environment: Environments, lines: Files]
    /\ config = LoadSetup(setup)
    /\ ctxDone = FALSE /\ shut = FALSE
    /\ conn = Nobody
    /\ stage = [c \in Clients |-> "idle"]
    /\ call \in [Clients -> Sends]
    /\ status = [c \in Clients |-> 200]
    /\ allow = {} /\ gone = {}
    /\ faults = 0

-----------------------------------------------------------------------------
(***************************************************************************)
(* The main goroutine.                                                     *)
(***************************************************************************)
Goto(place) == main' = place /\ UNCHANGED <<setup, config>>

\* config.Load, in whatever environment and next to whatever file.
Start ==
    /\ main = "down"
    /\ main' = "loaded"
    /\ setup' \in [environment: Environments, lines: Files]
    /\ config' = LoadSetup(setup')
    /\ ctxDone' = FALSE /\ shut' = FALSE
    /\ UNCHANGED <<conn, requestVars, faults>>

\* app.New and NotifyContext.
Open ==
    /\ main = "loaded"
    /\ \/ Goto("starting") /\ UNCHANGED faults
       \/ Goto("down") /\ Fault("start")
    /\ UNCHANGED <<ctxDone, shut, conn, requestVars>>

\* ListenAndServe; after a Shutdown it returns at once.
Listen ==
    /\ main = "starting"
    /\ \/ Goto(IF shut THEN "closing" ELSE "serving") /\ UNCHANGED faults
       \/ Goto("closing") /\ ~shut /\ Fault("listen")
    /\ UNCHANGED <<ctxDone, shut, conn, requestVars>>

\* Mutant of ServeReturns: it waits for the requests in progress.
ServeReturnsWhenIdle ==
    /\ main = "serving" /\ shut
    /\ \A c \in Clients : stage[c] = "idle"
    /\ Goto("closing")
    /\ UNCHANGED <<ctxDone, shut, conn, requestVars, faults>>

\* Mutant of ServeReturns: it does so without a Shutdown.
ServeReturnsEarly ==
    /\ main = "serving"
    /\ Goto("closing")
    /\ UNCHANGED <<ctxDone, shut, conn, requestVars, faults>>

\* ListenAndServe returns when its listener is closed: nothing waits for the
\* goroutine that is in Shutdown, or for the requests that it waits for.
ServeReturns ==
    /\ main = "serving" /\ shut
    /\ Goto("closing")
    /\ UNCHANGED <<ctxDone, shut, conn, requestVars, faults>>

\* The deferred calls: stop, and App.Close with the requests in progress.
CloseDatabase ==
    /\ main = "closing"
    /\ Goto("closed")
    /\ UNCHANGED <<ctxDone, shut, conn, requestVars, faults>>

\* The process ends and resets the connections of its clients.
Ends ==
    /\ Goto("down")
    /\ conn' = Nobody
    /\ stage' = [c \in Clients |-> "idle"]
    /\ allow' = {} /\ gone' = {}
    /\ status' = [c \in Clients |-> 200]
    /\ UNCHANGED <<ctxDone, shut, call>>

Exit == main = "closed" /\ Ends /\ UNCHANGED faults

Kill == main # "down" /\ Ends /\ Fault("kill")

\* SIGTERM or SIGINT while NotifyContext listens for it.
Signal ==
    /\ main \in {"starting", "serving"} /\ ~ctxDone
    /\ ctxDone' = TRUE
    /\ UNCHANGED <<main, setup, config, shut, conn, requestVars, faults>>

\* The goroutine of serve: Shutdown closes the listener.
Shutdown ==
    /\ ctxDone /\ ~shut /\ main \in {"starting", "serving"}
    /\ shut' = TRUE
    /\ UNCHANGED <<main, setup, config, ctxDone, conn, requestVars, faults>>

-----------------------------------------------------------------------------
(***************************************************************************)
(* A request, in a goroutine of its own.                                   *)
(***************************************************************************)
Arrive(c) ==
    /\ main = "serving" /\ ~shut
    /\ stage[c] = "idle"
    /\ stage' = [stage EXCEPT ![c] = "routing"]
    /\ \E request \in Sends : call' = [call EXCEPT ![c] = request]
    /\ UNCHANGED <<processVars, conn, status, allow, gone, faults>>

\* The status without the help of the database, by cors and the mux of
\* Router.  A pattern for GET also matches HEAD.
Direct(request) ==
    IF request.method = "OPTIONS" THEN 204
    ELSE IF request.path = "/rides//cost" THEN 301
    ELSE IF request.path = "/" THEN 404
    ELSE IF request.method = "POST" THEN 405
    ELSE 200

ReadsTables(request) == request.path \in TablePaths /\ request.method \in {"GET", "HEAD"}

Answer(c, code) ==
    /\ stage' = [stage EXCEPT ![c] = "writing"]
    /\ status' = [status EXCEPT ![c] = code]

\* Mutant of Route: every origin is allowed.
RouteFromAnywhere(c) ==
    /\ stage[c] = "routing"
    /\ allow' = allow \cup {c}
    /\ IF ReadsTables(call[c])
       THEN stage' = [stage EXCEPT ![c] = "waiting"] /\ UNCHANGED status
       ELSE Answer(c, Direct(call[c]))
    /\ UNCHANGED <<processVars, conn, call, gone, faults>>

\* cors comes first, so that refusals and errors have its headers too.
Route(c) ==
    /\ stage[c] = "routing"
    /\ allow' = IF call[c].origin \in config.origins THEN allow \cup {c} ELSE allow
    /\ IF ReadsTables(call[c])
       THEN stage' = [stage EXCEPT ![c] = "waiting"] /\ UNCHANGED status
       ELSE Answer(c, Direct(call[c]))
    /\ UNCHANGED <<processVars, conn, call, gone, faults>>

\* The handler's only query gets the connection.
Query(c) ==
    /\ stage[c] = "waiting"
    /\ conn = Nobody /\ main # "closed"
    /\ conn' = c
    /\ stage' = [stage EXCEPT ![c] = "querying"]
    /\ UNCHANGED <<processVars, call, status, allow, gone, faults>>

\* Mutant of Refuse: a query does not wait for the connection.
RefuseWhenBusy(c) ==
    /\ stage[c] = "waiting"
    /\ main = "closed" \/ c \in gone \/ conn # Nobody
    /\ Answer(c, 500)
    /\ UNCHANGED <<processVars, conn, call, allow, gone, faults>>

\* It does not: the database is closed, or the client has left.
Refuse(c) ==
    /\ stage[c] = "waiting"
    /\ main = "closed" \/ c \in gone
    /\ Answer(c, 500)
    /\ UNCHANGED <<processVars, conn, call, allow, gone, faults>>

\* Mutant of Result: an error returns without closing the rows.
ResultOrLeak(c) ==
    /\ stage[c] = "querying"
    /\ \/ Answer(c, 200) /\ conn' = Nobody /\ UNCHANGED faults
       \/ Answer(c, 500) /\ UNCHANGED conn /\ (Fault("statement") \/ (c \in gone /\ UNCHANGED faults))
    /\ UNCHANGED <<processVars, call, allow, gone>>

\* Mutant of Result: the rows are written while they are read.
ResultStreams(c) ==
    /\ stage[c] = "querying"
    /\ Answer(c, 200)
    /\ UNCHANGED <<processVars, conn, call, allow, gone, faults>>

\* All rows are read, or the query fails or is cancelled; either way the
\* connection is free before anything is written.
Result(c) ==
    /\ stage[c] = "querying"
    /\ conn' = Nobody
    /\ \/ Answer(c, 200) /\ UNCHANGED faults
       \/ Answer(c, 500) /\ (Fault("statement") \/ (c \in gone /\ UNCHANGED faults))
    /\ UNCHANGED <<processVars, call, allow, gone>>

\* The answer has been written, or its client is gone.
Written(c) ==
    /\ stage[c] = "writing"
    /\ stage' = [stage EXCEPT ![c] = "idle"]
    /\ status' = [status EXCEPT ![c] = 200]
    /\ allow' = allow \ {c} /\ gone' = gone \ {c}
    /\ UNCHANGED <<processVars, conn, call, faults>>

Leave(c) ==
    /\ stage[c] # "idle" /\ c \notin gone
    /\ gone' = gone \cup {c}
    /\ UNCHANGED <<processVars, conn, stage, call, status, allow, faults>>

-----------------------------------------------------------------------------
MainStep == Open \/ Listen \/ ServeReturns \/ CloseDatabase \/ Exit

HandlerStep(c) == Route(c) \/ Refuse(c) \/ Result(c)

Next ==
    \/ Start \/ MainStep \/ Kill \/ Signal \/ Shutdown
    \/ \E c \in Clients :
          Arrive(c) \/ HandlerStep(c) \/ Query(c) \/ Written(c) \/ Leave(c)

Spec == Init /\ [][Next]_vars

\* The goroutines run.  Written is up to the client, who may never read.
\* database/sql gives a connection that becomes free to a waiting request
\* that it picks at random, so no request is passed over for ever.
FairSpec ==
    /\ Spec
    /\ WF_vars(MainStep)
    /\ WF_vars(Shutdown)
    /\ \A c \in Clients : WF_vars(HandlerStep(c)) /\ SF_vars(Query(c))

-----------------------------------------------------------------------------
Places == {"down", "loaded", "starting", "serving", "closing", "closed"}
Stages == {"idle", "routing", "waiting", "querying", "writing"}
Codes  == {200, 204, 301, 404, 405, 500}

TypeOK ==
    /\ main \in Places
    /\ setup \in [environment: Environments, lines: Files]
    /\ config = LoadSetup(setup)
    /\ ctxDone \in BOOLEAN /\ shut \in BOOLEAN
    /\ conn \in Clients \cup {Nobody}
    /\ stage \in [Clients -> Stages]
    /\ call \in [Clients -> Sends]
    /\ status \in [Clients -> Codes]
    /\ allow \subseteq Clients /\ gone \subseteq Clients
    /\ faults \in 0..MaxFaults

(* Exactly the handler that runs its query has the connection: none keeps  *)
(* it on any way out, and none waits for a second one (repository.go All   *)
(* and CheckoutTimes, database.go:40).                                     *)
ConnectionInUse == \A c \in Clients : conn = c <=> stage[c] = "querying"

(* Requests are in progress only in a process that has served, and their   *)
(* database is closed only after a signal (serve.go:34-49, main.go:58-63). *)
InProgress ==
    /\ main \in {"down", "loaded", "starting"} => \A c \in Clients : stage[c] = "idle"
    /\ main \in {"closing", "closed"} => shut \/ \A c \in Clients : stage[c] = "idle"
    /\ shut => ctxDone

ServerInv == TypeOK /\ ConnectionInUse /\ InProgress

Failed == {c \in Clients : stage[c] = "writing" /\ status[c] = 500}

(* An answer says that the server failed only when a statement failed, the *)
(* client had left, or the database was closed (handlers.go, response.go). *)
ErrorsHaveCause == main = "closed" \/ Cardinality(Failed \ gone) <= faults

(* "Real environment variables win over it" (README.md), the first line of *)
(* a key in .env wins, and what is not given or empty has its default,     *)
(* which a value of only spaces or commas has not (config.go env,          *)
(* loadDotEnv).                                                            *)
Given(found, key) ==
    LET lines == {i \in DOMAIN found.lines : found.lines[i].key = key}
    IN  IF key \in DOMAIN found.environment THEN found.environment[key]
        ELSE IF lines = {} THEN Empty
        ELSE found.lines[CHOOSE i \in lines : \A k \in lines : i <= k].value

Effective(found, key) ==
    IF Given(found, key) = Empty THEN Default[key] ELSE Given(found, key)

(* Whatever the status, an answer has the CORS headers exactly for an      *)
(* origin that the settings at the start of the process allowed, and for   *)
(* no request without an origin.  A list of only spaces or commas allows   *)
(* none, where an empty one allows the default (cors.go, config.go).       *)
CorsFollowsSettings ==
    \A c \in Clients : stage[c] \in {"waiting", "querying", "writing"} =>
        (c \in allow <=>
            /\ call[c].origin # Blank
            /\ \E i \in DOMAIN Effective(setup, CORSAllowedOrigins) :
                  Trimmed[Effective(setup, CORSAllowedOrigins)[i]] = call[c].origin)

(* A request is cut off only by a signal or a fault: a process that was    *)
(* not told to end answers what it let in (serve.go:34-49).                *)
CutOffOnlyBySignal ==
    [][\A c \in Clients :
          (stage[c] \notin {"idle", "writing"} /\ stage'[c] = "idle")
              => ctxDone \/ faults' # faults
      ]_vars

(* A request that waits for the connection gets its result, however slowly *)
(* other clients read theirs (database.go:40, handlers.go).                *)
WaitersGetOn == \A c \in Clients : stage[c] = "waiting" ~> stage[c] \in {"writing", "idle"}

(* A signal ends the process, whatever its clients do (serve.go:34-49).    *)
EndsOnSignal == ctxDone ~> main = "down"
=============================================================================
