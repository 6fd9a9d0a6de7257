---------------------------- MODULE JobLifecycle ----------------------------
(***************************************************************************)
(* What the queue promises of a job, whatever lists and workers there are: *)
(* it is issued, waits, is taken once, and ends as settled: logged as      *)
(* processed or recorded in failed_jobs.  On the way only a fault loses    *)
(* it, and one fault at most one job.  Only the client that pushed it,     *)
(* while it has no answer, may put it back at any stage; from then on it   *)
(* is "resent" and may be at several stages.                               *)
(*                                                                         *)
(* JobQueue implements this specification.                                 *)
(***************************************************************************)
EXTENDS Naturals, FiniteSets

CONSTANT MaxJobs  \* bound: job ids ever issued

VARIABLES
    issued,   \* how many ids were issued: the jobs are 1..issued
    open,     \* jobs whose client has no answer and may push them again
    resent,   \* jobs that were pushed again
    waiting,  \* jobs on a list
    running,  \* jobs that a worker has taken
    settled,  \* jobs that are processed or recorded as failed
    faults    \* how often something failed

jobVars == <<issued, open, resent, waiting, running, settled, faults>>

Init ==
    /\ issued = 0 /\ faults = 0
    /\ open = {} /\ resent = {} /\ waiting = {} /\ running = {} /\ settled = {}

Fails == faults' = faults + 1

\* A new job waits; with a fault it may be lost, or leave its client without
\* an answer.
Issue ==
    /\ issued < MaxJobs
    /\ issued' = issued + 1
    /\ \/ waiting' = waiting \cup {issued'} /\ UNCHANGED <<open, faults>>
       \/ waiting' = waiting \cup {issued'} /\ open' = open \cup {issued'} /\ Fails
       \/ Fails /\ UNCHANGED <<waiting, open>>
    /\ UNCHANGED <<resent, running, settled>>

Return(id) ==
    /\ id \in open
    /\ waiting' = waiting \cup {id}
    /\ resent' = resent \cup {id}
    /\ \/ open' = open \ {id} /\ UNCHANGED faults
       \/ Fails /\ UNCHANGED open
    /\ UNCHANGED <<issued, running, settled>>

GiveUp(id) ==
    /\ id \in open
    /\ open' = open \ {id}
    /\ UNCHANGED <<issued, resent, waiting, running, settled, faults>>

\* A job that was resent may be at a stage more than once, so one copy of
\* it may leave and the other stay.
Leaves(id, stage) == {stage \ {id}} \cup (IF id \in resent THEN {stage} ELSE {})

Take(id) ==
    /\ id \in waiting
    /\ id \in resent \/ id \notin running \cup settled
    /\ waiting' \in Leaves(id, waiting)
    /\ running' = running \cup {id}
    /\ UNCHANGED <<issued, open, resent, settled, faults>>

\* The reply of a pop is lost.
LoseWaiting(id) ==
    /\ id \in waiting
    /\ waiting' \in Leaves(id, waiting)
    /\ Fails
    /\ UNCHANGED <<issued, open, resent, running, settled>>

\* The end of a run: settled or, with a fault, lost.
Leave(id) ==
    /\ id \in running
    /\ running' \in Leaves(id, running)
    /\ \/ settled' = settled \cup {id} /\ UNCHANGED faults
       \/ Fails /\ UNCHANGED settled
    /\ UNCHANGED <<issued, open, resent, waiting>>

\* A fault that does nothing to any job.
Survive == Fails /\ UNCHANGED <<issued, open, resent, waiting, running, settled>>

Next ==
    \/ Issue
    \/ \E id \in 1..issued :
          \/ Return(id) \/ GiveUp(id)
          \/ Take(id) \/ LoseWaiting(id) \/ Leave(id)
    \/ Survive

Spec == Init /\ [][Next]_jobVars

-----------------------------------------------------------------------------
TypeOK ==
    /\ issued \in Nat /\ faults \in Nat
    /\ open \cup resent \cup waiting \cup running \cup settled \subseteq 1..issued

(* A job that its client pushed once is at one stage at a time             *)
(* (worker.go:91).                                                         *)
OneStage ==
    \A id \in (1..issued) \ resent :
        /\ id \notin waiting \cap running
        /\ id \notin waiting \cap settled
        /\ id \notin running \cap settled

Missing == (1..issued) \ (waiting \cup running \cup settled)

(* No job disappears in silence: each one that is at no stage has been     *)
(* paid for by a fault.  SIGTERM is no fault, a shutdown loses nothing     *)
(* (worker.go Run, run).                                                   *)
Accounted == Cardinality(Missing) <= faults
=============================================================================
