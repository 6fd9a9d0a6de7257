------------------------------ MODULE JobQueue ------------------------------
(***************************************************************************)
(* The queue package: the Redis lists that carry background jobs, the      *)
(* client that pushes onto and pops from them (queue.go), and the worker   *)
(* process that drains them one job at a time (worker.go).                 *)
(*                                                                         *)
(* What a handler does is left open here: it succeeds, returns an error    *)
(* or panics.  RideChecks refines it to the handlers of the jobs package.  *)
(***************************************************************************)
EXTENDS Naturals, Sequences, FiniteSets

CONSTANTS
    Clients,     \* processes that push jobs: the dispatching commands
    Workers,     \* worker processes, one slot per "velo work"
    Queues,      \* the names of the Redis lists
    Serves,      \* Serves[w]: the -queue flag of w, in BLPOP's key order
    Types,       \* the job types that are ever pushed
    Registered,  \* the types that have a handler
    Payloads,
    NoJob,
    MaxJobs,     \* bound: job ids ever issued
    FaultKinds,  \* the faults the environment may inject
    MaxFaults    \* bound: how many of them

Job == [id: 1..MaxJobs, type: Types, queue: Queues, payload: Payloads]

AllFaultKinds ==
    { "push",       \* an RPUSH fails and nothing is stored
      "reply",      \* an RPUSH is executed but its reply is lost
      "pop",        \* a BLPOP fails and nothing is removed
      "popReply",   \* a BLPOP is executed but its reply is lost
      "statement",  \* the INSERT into failed_jobs fails
      "handler",    \* a handler's call to the database or upstream fails
      "panic",      \* a handler panics, which nothing recovers
      "crash" }     \* the worker process is killed

ASSUME JobQueueAssumption ==
    /\ IsFiniteSet(Workers)
    /\ MaxJobs \in Nat /\ MaxFaults \in Nat
    /\ Registered \subseteq Types
    /\ Serves \in [Workers -> Seq(Queues)]
    /\ FaultKinds \subseteq AllFaultKinds
    /\ NoJob \notin Job

VARIABLES
    queues,      \* the Redis lists
    unanswered,  \* unanswered[c]: the job whose RPUSH reply c lost
    resent,      \* history, for the properties: the ids ever sent again
    pc,          \* where each worker process is in Worker.Run
    job,         \* the job a worker has popped and not finished
    ctxDone,     \* has the worker received SIGTERM
    failedJobs,  \* uuid column of the failed_jobs table
    processed,   \* the ids logged as "job processed"
    pushed,      \* ids issued so far
    faults       \* faults injected so far

redisVars  == <<queues, unanswered, resent, pushed>>
workerVars == <<pc, job, ctxDone>>
queueVars  == <<redisVars, workerVars, failedJobs, processed, faults>>

Locations == {"down", "loop", "popping", "handling", "recording"}

Init ==
    /\ queues = [q \in Queues |-> <<>>]
    /\ unanswered = [c \in Clients |-> NoJob]
    /\ resent = {}
    /\ pc = [w \in Workers |-> "down"]
    /\ job = [w \in Workers |-> NoJob]
    /\ ctxDone = [w \in Workers |-> FALSE]
    /\ failedJobs = {}
    /\ processed = {}
    /\ pushed = 0
    /\ faults = 0

Fault(kind) ==
    /\ kind \in FaultKinds
    /\ faults < MaxFaults
    /\ faults' = faults + 1

-----------------------------------------------------------------------------
(***************************************************************************)
(* Client.Push.  Every call issues a fresh id, even one that fails.  The   *)
(* redis client sends a command again when the connection breaks before    *)
(* the reply (its default), so one call may append the same job twice.     *)
(***************************************************************************)
NewJob(q, t, p) == [id |-> pushed + 1, type |-> t, queue |-> q, payload |-> p]

MayPush(c) == unanswered[c] = NoJob /\ pushed < MaxJobs

\* Mutant of Push: LPUSH.
LeftPush(c, q, t, p) ==
    /\ MayPush(c)
    /\ pushed' = pushed + 1
    /\ queues' = [queues EXCEPT ![q] = <<NewJob(q, t, p)>> \o @]
    /\ UNCHANGED <<unanswered, resent, workerVars, failedJobs, processed, faults>>

Push(c, q, t, p) ==
    /\ MayPush(c)
    /\ pushed' = pushed + 1
    /\ queues' = [queues EXCEPT ![q] = Append(@, NewJob(q, t, p))]
    /\ UNCHANGED <<unanswered, resent, workerVars, failedJobs, processed, faults>>

PushFails(c) ==
    /\ MayPush(c)
    /\ Fault("push")
    /\ pushed' = pushed + 1
    /\ UNCHANGED <<queues, unanswered, resent, workerVars, failedJobs, processed>>

PushReplyLost(c, q, t, p) ==
    /\ MayPush(c)
    /\ Fault("reply")
    /\ pushed' = pushed + 1
    /\ queues' = [queues EXCEPT ![q] = Append(@, NewJob(q, t, p))]
    /\ unanswered' = [unanswered EXCEPT ![c] = NewJob(q, t, p)]
    /\ UNCHANGED <<resent, workerVars, failedJobs, processed>>

\* The client sends the command again; this time the reply arrives or is
\* lost as well.
Resend(c) ==
    /\ unanswered[c] # NoJob
    /\ queues' = [queues EXCEPT ![unanswered[c].queue] = Append(@, unanswered[c])]
    /\ resent' = resent \cup {unanswered[c].id}
    /\ \/ unanswered' = [unanswered EXCEPT ![c] = NoJob] /\ UNCHANGED faults
       \/ Fault("reply") /\ UNCHANGED unanswered
    /\ UNCHANGED <<pushed, workerVars, failedJobs, processed>>

\* Out of retries: Push returns an error although the job is on the list.
GiveUp(c) ==
    /\ unanswered[c] # NoJob
    /\ unanswered' = [unanswered EXCEPT ![c] = NoJob]
    /\ UNCHANGED <<queues, resent, pushed, workerVars, failedJobs, processed, faults>>

-----------------------------------------------------------------------------
(***************************************************************************)
(* Worker.Run.  A turn of the loop checks the context, pops with a one     *)
(* second timeout and runs the job it got.  BLPOP looks at the keys in     *)
(* their order and takes the head of the first list that has one.          *)
(***************************************************************************)
\* Mutant of Ready: only the first key is passed on to BLPOP.
FirstReady(w) == {i \in {1} : queues[Serves[w][i]] # <<>>}

Ready(w) == {i \in DOMAIN Serves[w] : queues[Serves[w][i]] # <<>>}

\* Mutant of IsNext: BLPOP on every list.
IsNextOfAny(w, q) == w \in Workers /\ queues[q] # <<>>

IsNext(w, q) ==
    \E i \in Ready(w) : q = Serves[w][i] /\ \A k \in Ready(w) : i <= k

\* "velo work": the process starts, pings Redis and enters the loop.
Start(w) ==
    /\ pc[w] = "down"
    /\ pc' = [pc EXCEPT ![w] = "loop"]
    /\ ctxDone' = [ctxDone EXCEPT ![w] = FALSE]
    /\ UNCHANGED <<redisVars, job, failedJobs, processed, faults>>

\* Mutant of CheckContext: ctx.Err() is not looked at.
IgnoreContext(w) ==
    /\ pc[w] = "loop"
    /\ pc' = [pc EXCEPT ![w] = "popping"]
    /\ UNCHANGED <<redisVars, job, ctxDone, failedJobs, processed, faults>>

CheckContext(w) ==
    /\ pc[w] = "loop"
    /\ pc' = [pc EXCEPT ![w] = IF ctxDone[w] THEN "down" ELSE "popping"]
    /\ UNCHANGED <<redisVars, job, ctxDone, failedJobs, processed, faults>>

\* Client.Pop, and the handler lookup at the top of Worker.run.  The context
\* does not interrupt a BLPOP that was sent: a job may arrive after SIGTERM.
PopJob(w) ==
    /\ pc[w] = "popping"
    /\ \E q \in Queues :
          LET j == Head(queues[q])
          IN  /\ IsNext(w, q)
              /\ queues' = [queues EXCEPT ![q] = Tail(@)]
              /\ job' = [job EXCEPT ![w] = j]
              /\ pc' = [pc EXCEPT ![w] =
                           IF j.type \in Registered THEN "handling" ELSE "recording"]
    /\ UNCHANGED <<unanswered, resent, pushed, ctxDone, failedJobs, processed, faults>>

\* The other ways back to the top of the loop: nothing to pop for a second,
\* a cancelled context, an error that is logged and slept on.
PopNothing(w) ==
    /\ pc[w] = "popping"
    /\ pc' = [pc EXCEPT ![w] = "loop"]
    /\ \/ Ready(w) = {} /\ UNCHANGED <<queues, faults>>
       \/ ctxDone[w] /\ UNCHANGED <<queues, faults>>
       \/ Fault("pop") /\ UNCHANGED queues
       \/ /\ Fault("popReply")
          /\ \E q \in Queues :
                IsNext(w, q) /\ queues' = [queues EXCEPT ![q] = Tail(@)]
    /\ UNCHANGED <<unanswered, resent, pushed, job, ctxDone, failedJobs, processed>>

HandlerOk(w) ==
    /\ pc[w] = "handling"
    /\ pc' = [pc EXCEPT ![w] = "loop"]
    /\ job' = [job EXCEPT ![w] = NoJob]
    /\ processed' = processed \cup {job[w].id}
    /\ UNCHANGED <<redisVars, ctxDone, failedJobs, faults>>

\* Mutant of HandlerError: run returns without recordFailure.
ForgetError(w) ==
    /\ pc[w] = "handling"
    /\ pc' = [pc EXCEPT ![w] = "loop"]
    /\ job' = [job EXCEPT ![w] = NoJob]
    /\ UNCHANGED <<redisVars, ctxDone, failedJobs, processed, faults>>

HandlerError(w) ==
    /\ pc[w] = "handling"
    /\ pc' = [pc EXCEPT ![w] = "recording"]
    /\ UNCHANGED faults \/ Fault("handler")
    /\ UNCHANGED <<redisVars, job, ctxDone, failedJobs, processed>>

\* Mutant of RecordFailure: the failed job is put back to be tried again.
RecordAndRetry(w) ==
    /\ pc[w] = "recording"
    /\ pc' = [pc EXCEPT ![w] = "loop"]
    /\ job' = [job EXCEPT ![w] = NoJob]
    /\ failedJobs' = failedJobs \cup {job[w].id}
    /\ queues' = [queues EXCEPT ![job[w].queue] = Append(@, job[w])]
    /\ UNCHANGED <<unanswered, resent, pushed, ctxDone, processed, faults>>

\* recordFailure uses no context, so SIGTERM does not stop it.  A second row
\* with the same uuid violates the table's unique index, which leaves the
\* first row; any other error is logged and the failure is not recorded.
RecordFailure(w) ==
    /\ pc[w] = "recording"
    /\ pc' = [pc EXCEPT ![w] = "loop"]
    /\ job' = [job EXCEPT ![w] = NoJob]
    /\ \/ failedJobs' = failedJobs \cup {job[w].id} /\ UNCHANGED faults
       \/ Fault("statement") /\ UNCHANGED failedJobs
    /\ UNCHANGED <<redisVars, ctxDone, processed>>

-----------------------------------------------------------------------------
(***************************************************************************)
(* The end of a worker process: a panic, SIGKILL, or SIGTERM, which only   *)
(* cancels the context.  Nothing puts the popped job back on its list.     *)
(***************************************************************************)
Dies(w) ==
    /\ pc' = [pc EXCEPT ![w] = "down"]
    /\ job' = [job EXCEPT ![w] = NoJob]
    /\ UNCHANGED <<redisVars, ctxDone, failedJobs, processed>>

HandlerPanics(w) == pc[w] = "handling" /\ Fault("panic") /\ Dies(w)

Crash(w) == pc[w] # "down" /\ Fault("crash") /\ Dies(w)

Terminate(w) ==
    /\ pc[w] # "down"
    /\ ~ctxDone[w]
    /\ ctxDone' = [ctxDone EXCEPT ![w] = TRUE]
    /\ UNCHANGED <<redisVars, pc, job, failedJobs, processed, faults>>

-----------------------------------------------------------------------------
ClientStep(c) ==
    \/ \E q \in Queues, t \in Types, p \in Payloads :
          Push(c, q, t, p) \/ PushReplyLost(c, q, t, p)
    \/ PushFails(c)
    \/ Resend(c)
    \/ GiveUp(c)

\* What the goroutine in Worker.Run does by itself.
WorkerStep(w) ==
    \/ CheckContext(w)
    \/ PopJob(w)
    \/ PopNothing(w)
    \/ HandlerOk(w)
    \/ HandlerError(w)
    \/ RecordFailure(w)

ProcessStep(w) == Start(w) \/ Terminate(w) \/ HandlerPanics(w) \/ Crash(w)

Next ==
    \/ \E c \in Clients : ClientStep(c)
    \/ \E w \in Workers : WorkerStep(w) \/ ProcessStep(w)

Spec == Init /\ [][Next]_queueVars

\* The worker goroutine keeps running: its HTTP calls time out after ten
\* seconds, its statements after the busy timeout, its BLPOP after one.
FairSpec == Spec /\ \A w \in Workers : WF_queueVars(WorkerStep(w))

-----------------------------------------------------------------------------
TypeOK ==
    /\ queues \in [Queues -> Seq(Job)]
    /\ unanswered \in [Clients -> Job \cup {NoJob}]
    /\ resent \subseteq 1..MaxJobs
    /\ pc \in [Workers -> Locations]
    /\ job \in [Workers -> Job \cup {NoJob}]
    /\ ctxDone \in [Workers -> BOOLEAN]
    /\ failedJobs \subseteq 1..MaxJobs
    /\ processed \subseteq 1..MaxJobs
    /\ pushed \in 0..MaxJobs
    /\ faults \in 0..MaxFaults

IdsIn(list) == {list[i].id : i \in DOMAIN list}

QueuedIds == UNION {IdsIn(queues[q]) : q \in Queues}

Busy == {w \in Workers : job[w] # NoJob}

HeldIds == {job[w].id : w \in Busy}

ServedBy(q) == {w \in Workers : \E i \in DOMAIN Serves[w] : Serves[w][i] = q}

(* The inductive invariant: a worker holds a job exactly while it runs or  *)
(* records it, a list only has jobs that were pushed onto it, and a worker *)
(* only holds jobs of the lists it serves (worker.go run, queue.go Pop).   *)
JobsInPlace ==
    /\ \A w \in Workers : w \in Busy <=> pc[w] \in {"handling", "recording"}
    /\ \A q \in Queues : \A i \in DOMAIN queues[q] : queues[q][i].queue = q
    /\ \A w \in Busy : w \in ServedBy(job[w].queue)

Inv == TypeOK /\ JobsInPlace

(* A job on an exclusive list, one that a single worker serves, is never   *)
(* run while another job of that list is: "the free upstream APIs are      *)
(* never called concurrently" (queue.go:15-17, worker.go Run).             *)
OneAtATime ==
    \A u, w \in Busy :
        (job[u].queue = job[w].queue /\ Cardinality(ServedBy(job[u].queue)) = 1)
            => u = w

(* Jobs "are run once and are not retried" (worker.go:91), but for a push  *)
(* that the client sent again: a job in its handler has not been run       *)
(* before, no other worker has it and it is on no list.                    *)
RunOnce ==
    \A w \in Workers : (pc[w] = "handling" /\ job[w].id \notin resent) =>
        /\ job[w].id \notin processed \cup failedJobs \cup QueuedIds
        /\ \A u \in Busy \ {w} : job[u].id # job[w].id

(* The same without the exception, as the comment says it.                 *)
JobsRunOnce ==
    \A w \in Workers : pc[w] = "handling" =>
        /\ job[w].id \notin processed \cup failedJobs
        /\ \A u \in Busy \ {w} : job[u].id # job[w].id

(* Lists are first in, first out (RPUSH, BLPOP): but for pushes that were  *)
(* sent again, a list is in the order of the pushes, and a job is only run *)
(* when every older one of its list has been taken.                        *)
InPushOrder ==
    \A q \in Queues : \A k \in DOMAIN queues[q] : queues[q][k].id \notin resent =>
        /\ \A i \in 1..(k - 1) : queues[q][i].id < queues[q][k].id
        /\ \A w \in Busy : job[w].queue = q => job[w].id < queues[q][k].id

AllIds == QueuedIds \cup HeldIds \cup processed \cup failedJobs \cup resent

Waiters == {c \in Clients : unanswered[c] # NoJob}

Issued ==
    /\ AllIds \subseteq 1..pushed
    /\ \A c \in Waiters : unanswered[c].id \in 1..pushed
    /\ \A c, d \in Waiters : unanswered[c].id = unanswered[d].id => c = d

InOnePlace ==
    /\ \A q, p \in Queues : \A i \in DOMAIN queues[q], k \in DOMAIN queues[p] :
          (queues[q][i].id = queues[p][k].id /\ queues[q][i].id \notin resent)
              => q = p /\ i = k
    /\ \A w \in Busy : job[w].id \notin resent =>
          /\ job[w].id \notin processed \cup failedJobs \cup QueuedIds
          /\ \A u \in Busy \ {w} : job[u].id # job[w].id
    /\ \A id \in QueuedIds \ resent : id \notin processed \cup failedJobs

(* The inductive invariant behind these two: every id was issued, and but  *)
(* for pushes that were sent again a job is in one place only              *)
(* (queue.go Push and Pop, worker.go run).                                 *)
IdsInv == Issued /\ InOnePlace /\ InPushOrder

OpenIds == {unanswered[c].id : c \in Waiters}

Life == INSTANCE JobLifecycle WITH
    issued  <- pushed,
    open    <- OpenIds,
    waiting <- QueuedIds,
    running <- HeldIds,
    settled <- processed \cup failedJobs

(* The life of a job: issued, waiting, running, settled or lost, and       *)
(* forward only, unless its client pushes it again (queue.go Push and Pop, *)
(* worker.go run and recordFailure).                                       *)
Lifecycle == Life!Spec

(* No job disappears in silence: one that is on no list, in no worker and  *)
(* neither processed nor in failed_jobs has been paid for by a fault.      *)
(* SIGTERM is no fault: a shutdown loses nothing (worker.go, run).         *)
Accounted == Life!Accounted

(* The workers never put a job back: an id returns to a list only while    *)
(* the client that pushed it still waits for its reply (queue.go Push).    *)
NeverRequeued ==
    [][\A id \in 1..pushed :
          (id \notin QueuedIds /\ id \in QueuedIds')
              => \E c \in Waiters : unanswered[c].id = id
      ]_queueVars

(* After SIGTERM the worker ends, at most the job it holds or is popping   *)
(* later (worker.go Run).                                                  *)
StopsOnSignal == \A w \in Workers : ctxDone[w] ~> pc[w] = "down"

(* The worker has a job of a list that comes before q among its own.  BLPOP*)
(* keeps to the order of its keys, so jobs that keep coming there may hold *)
(* back those of q for ever.                                               *)
Overtaken(w, q) ==
    /\ w \in Busy
    /\ \E i, k \in DOMAIN Serves[w] :
          k < i /\ Serves[w][i] = q /\ Serves[w][k] = job[w].queue

(* Each worker of a list sees to it that a job of the list is taken, until *)
(* its process is down or it turns to a job of a list before this one.  On *)
(* the first list of a worker a job always gets its turn, however many     *)
(* jobs are pushed (worker.go Run, queue.go:77-82).                        *)
JobsAreTaken ==
    \A q \in Queues : \A w \in ServedBy(q), id \in 1..MaxJobs :
        id \in IdsIn(queues[q])
            ~> \/ id \notin IdsIn(queues[q])
               \/ pc[w] = "down"
               \/ Overtaken(w, q)
=============================================================================
