--------------------------- MODULE JobQueueProofs ---------------------------
(***************************************************************************)
(* What holds of JobQueue for every number of workers, lists, clients and  *)
(* jobs and for every choice of faults.                                    *)
(***************************************************************************)
EXTENDS JobQueue, SequenceTheorems, FiniteSetTheorems, TLAPS

LEMMA InitInv == Init => Inv
<1> USE JobQueueAssumption
<1> SUFFICES ASSUME Init PROVE Inv
    OBVIOUS
<1>1. TypeOK
    BY EmptySeq DEF Init, TypeOK, Locations
<1>2. JobsInPlace
    BY DEF Init, JobsInPlace, Busy
<1> QED
    BY <1>1, <1>2 DEF Inv

LEMMA FaultType ==
    ASSUME TypeOK, NEW kind, Fault(kind)
    PROVE  faults' \in 0..MaxFaults
BY JobQueueAssumption DEF TypeOK, Fault

\* A step of a client: the new job goes to the end of the list it names.
LEMMA AppendInv ==
    ASSUME Inv, NEW j \in Job, UNCHANGED workerVars,
           queues' = [queues EXCEPT ![j.queue] = Append(@, j)]
    PROVE  queues' \in [Queues -> Seq(Job)] /\ JobsInPlace'
<1> USE JobQueueAssumption DEF Inv, TypeOK
<1>1. j.queue \in Queues
    BY DEF Job
<1>2. Append(queues[j.queue], j) \in Seq(Job)
    BY <1>1, AppendProperties
<1>3. queues' \in [Queues -> Seq(Job)]
    BY <1>1, <1>2
<1>4. ASSUME NEW q \in Queues, NEW i \in DOMAIN queues'[q]
      PROVE  queues'[q][i].queue = q
    <2>1. CASE q = j.queue
        <3>1. /\ queues'[q] = Append(queues[q], j)
              /\ Len(queues'[q]) = Len(queues[q]) + 1
            BY <1>1, <2>1, AppendProperties
        <3>2. CASE i = Len(queues[q]) + 1
            BY <1>1, <2>1, <3>1, <3>2, AppendProperties
        <3>3. CASE i # Len(queues[q]) + 1
            <4>1. i \in 1..Len(queues[q])
                BY <1>3, <1>4, <3>1, <3>3, LenProperties
            <4>2. queues'[q][i] = queues[q][i]
                BY <1>1, <3>1, <4>1, AppendProperties
            <4> QED
                BY <4>1, <4>2, LenProperties DEF JobsInPlace
        <3> QED
            BY <3>2, <3>3
    <2>2. CASE q # j.queue
        BY <1>4, <2>2 DEF JobsInPlace
    <2> QED
        BY <2>1, <2>2
<1>5. JobsInPlace'
    BY <1>4 DEF JobsInPlace, workerVars, Busy, ServedBy
<1> QED
    BY <1>3, <1>5

\* What a list is left with when its head has been taken.
LEMMA TailInv ==
    ASSUME Inv, NEW w \in Workers, NEW q \in Queues, IsNext(w, q),
           queues' = [queues EXCEPT ![q] = Tail(@)]
    PROVE  /\ queues' \in [Queues -> Seq(Job)]
           /\ \A p \in Queues : \A i \in DOMAIN queues'[p] : queues'[p][i].queue = p
           /\ Head(queues[q]) \in Job
           /\ Head(queues[q]).queue = q
           /\ w \in ServedBy(q)
<1> USE JobQueueAssumption DEF Inv, TypeOK
<1>1. queues[q] # <<>> /\ w \in ServedBy(q)
    BY DEF IsNext, Ready, ServedBy
<1>2. /\ Head(queues[q]) \in Job
      /\ Tail(queues[q]) \in Seq(Job)
      /\ Len(Tail(queues[q])) = Len(queues[q]) - 1
      /\ \A i \in 1..Len(Tail(queues[q])) : Tail(queues[q])[i] = queues[q][i + 1]
    BY <1>1, HeadTailProperties
<1>3. queues' \in [Queues -> Seq(Job)]
    BY <1>2
<1>4. Len(queues[q]) \in Nat /\ Len(queues[q]) > 0
    BY <1>1, EmptySeq, LenProperties
<1>5. Head(queues[q]).queue = q
    BY <1>1, <1>4, LenProperties DEF JobsInPlace
<1>6. ASSUME NEW p \in Queues, NEW i \in DOMAIN queues'[p]
      PROVE  queues'[p][i].queue = p
    <2>1. CASE p = q
        <3>1. i \in 1..(Len(queues[q]) - 1)
            BY <1>2, <1>6, <2>1, LenProperties
        <3>2. queues'[p][i] = queues[q][i + 1] /\ i + 1 \in DOMAIN queues[q]
            BY <1>2, <1>4, <2>1, <3>1, LenProperties
        <3> QED
            BY <2>1, <3>2 DEF JobsInPlace
    <2>2. CASE p # q
        BY <1>6, <2>2 DEF JobsInPlace
    <2> QED
        BY <2>1, <2>2
<1> QED
    BY <1>1, <1>2, <1>3, <1>5, <1>6

LEMMA StepInv == Inv /\ [Next]_queueVars => Inv'
<1> USE JobQueueAssumption DEF Inv
<1> SUFFICES ASSUME Inv, [Next]_queueVars PROVE Inv'
    OBVIOUS
<1>1. ASSUME NEW c \in Clients, NEW q \in Queues, NEW t \in Types, NEW p \in Payloads,
             Push(c, q, t, p) \/ PushReplyLost(c, q, t, p)
      PROVE  Inv'
    <2> DEFINE j == NewJob(q, t, p)
    <2>1. j \in Job /\ j.queue = q /\ pushed' \in 0..MaxJobs
        BY <1>1 DEF Push, PushReplyLost, MayPush, NewJob, Job, TypeOK
    <2>2. /\ queues' = [queues EXCEPT ![j.queue] = Append(@, j)]
          /\ UNCHANGED workerVars
        BY <1>1, <2>1 DEF Push, PushReplyLost
    <2>3. queues' \in [Queues -> Seq(Job)] /\ JobsInPlace'
        BY <2>1, <2>2, AppendInv
    <2>4. unanswered' \in [Clients -> Job \cup {NoJob}] /\ faults' \in 0..MaxFaults
        <3>1. CASE Push(c, q, t, p)
            BY <3>1 DEF Push, TypeOK
        <3>2. CASE PushReplyLost(c, q, t, p)
            BY <2>1, <3>2, FaultType DEF PushReplyLost, TypeOK
        <3> QED
            BY <1>1, <3>1, <3>2
    <2> QED
        BY <1>1, <2>1, <2>2, <2>3, <2>4
        DEF Push, PushReplyLost, TypeOK, workerVars
<1>2. ASSUME NEW c \in Clients, Resend(c)
      PROVE  Inv'
    <2>1. unanswered[c] \in Job
        BY <1>2 DEF Resend, TypeOK
    <2>2. queues' \in [Queues -> Seq(Job)] /\ JobsInPlace'
        BY <1>2, <2>1, AppendInv DEF Resend
    <2>3. /\ unanswered' \in [Clients -> Job \cup {NoJob}]
          /\ faults' \in 0..MaxFaults
        BY <1>2, FaultType DEF Resend, TypeOK
    <2>4. resent' \subseteq 1..MaxJobs
        BY <1>2, <2>1 DEF Resend, TypeOK, Job
    <2> QED
        BY <1>2, <2>2, <2>3, <2>4 DEF Resend, TypeOK, workerVars
<1>3. ASSUME NEW c \in Clients, PushFails(c) \/ GiveUp(c)
      PROVE  Inv'
    <2>1. TypeOK'
        <3>1. CASE PushFails(c)
            BY <3>1, FaultType DEF PushFails, MayPush, TypeOK, workerVars
        <3>2. CASE GiveUp(c)
            BY <3>2 DEF GiveUp, TypeOK, workerVars
        <3> QED
            BY <1>3, <3>1, <3>2
    <2>2. JobsInPlace'
        BY <1>3 DEF PushFails, GiveUp, JobsInPlace, workerVars, Busy, ServedBy
    <2> QED
        BY <2>1, <2>2
<1>4. ASSUME NEW w \in Workers, PopJob(w)
      PROVE  Inv'
    <2>1. PICK q \in Queues :
             /\ IsNext(w, q)
             /\ queues' = [queues EXCEPT ![q] = Tail(@)]
             /\ job' = [job EXCEPT ![w] = Head(queues[q])]
             /\ pc' = [pc EXCEPT ![w] = IF Head(queues[q]).type \in Registered
                                        THEN "handling" ELSE "recording"]
        BY <1>4 DEF PopJob
    <2>2. /\ queues' \in [Queues -> Seq(Job)]
          /\ \A p \in Queues : \A i \in DOMAIN queues'[p] : queues'[p][i].queue = p
          /\ Head(queues[q]) \in Job
          /\ Head(queues[q]).queue = q
          /\ w \in ServedBy(q)
        BY <2>1, TailInv
    <2>3. TypeOK'
        BY <1>4, <2>1, <2>2 DEF PopJob, TypeOK, Locations
    <2>4. JobsInPlace'
        BY <2>1, <2>2 DEF JobsInPlace, Busy, ServedBy, TypeOK
    <2> QED
        BY <2>3, <2>4
<1>5. ASSUME NEW w \in Workers, PopNothing(w)
      PROVE  Inv'
    <2>1. /\ queues' \in [Queues -> Seq(Job)]
          /\ \A p \in Queues : \A i \in DOMAIN queues'[p] : queues'[p][i].queue = p
        <3>1. CASE UNCHANGED queues
            BY <3>1 DEF TypeOK, JobsInPlace
        <3>2. ASSUME NEW q \in Queues, IsNext(w, q),
                     queues' = [queues EXCEPT ![q] = Tail(@)]
              PROVE  <2>1!:
            BY <3>2, TailInv
        <3> QED
            BY <1>5, <3>1, <3>2 DEF PopNothing
    <2>2. TypeOK'
        BY <1>5, <2>1 DEF PopNothing, Fault, TypeOK, Locations
    <2>3. JobsInPlace'
        BY <1>5, <2>1 DEF PopNothing, JobsInPlace, Busy, ServedBy, TypeOK
    <2> QED
        BY <2>2, <2>3
<1>6. ASSUME NEW w \in Workers, Start(w) \/ CheckContext(w) \/ Terminate(w)
      PROVE  Inv'
    <2>1. UNCHANGED <<queues, unanswered, resent, pushed, job, failedJobs, processed, faults>>
        BY <1>6 DEF Start, CheckContext, Terminate, redisVars
    <2>2. /\ pc' \in [Workers -> Locations]
          /\ ctxDone' \in [Workers -> BOOLEAN]
          /\ \A u \in Workers : pc'[u] \in {"handling", "recording"}
                                <=> pc[u] \in {"handling", "recording"}
        BY <1>6 DEF Start, CheckContext, Terminate, TypeOK, Locations
    <2>3. TypeOK'
        BY <2>1, <2>2 DEF TypeOK
    <2>4. JobsInPlace'
        BY <2>1, <2>2 DEF JobsInPlace, Busy, ServedBy
    <2> QED
        BY <2>3, <2>4
<1>7. ASSUME NEW w \in Workers, HandlerOk(w) \/ HandlerError(w) \/ RecordFailure(w)
      PROVE  Inv'
    <2>1. job[w].id \in 1..MaxJobs
        BY <1>7 DEF HandlerOk, HandlerError, RecordFailure, TypeOK, JobsInPlace,
                    Busy, Job
    <2>2. CASE HandlerOk(w)
        <3>1. TypeOK'
            BY <2>1, <2>2 DEF HandlerOk, TypeOK, Locations, redisVars
        <3>2. JobsInPlace'
            BY <2>2 DEF HandlerOk, JobsInPlace, Busy, ServedBy, TypeOK, redisVars
        <3> QED
            BY <3>1, <3>2
    <2>3. CASE HandlerError(w)
        <3>1. TypeOK'
            BY <2>3, FaultType DEF HandlerError, TypeOK, Locations, redisVars
        <3>2. JobsInPlace'
            BY <2>3 DEF HandlerError, JobsInPlace, Busy, ServedBy, TypeOK, redisVars
        <3> QED
            BY <3>1, <3>2
    <2>4. CASE RecordFailure(w)
        <3>1. TypeOK'
            BY <2>1, <2>4, FaultType DEF RecordFailure, TypeOK, Locations, redisVars
        <3>2. JobsInPlace'
            BY <2>4 DEF RecordFailure, JobsInPlace, Busy, ServedBy, TypeOK, redisVars
        <3> QED
            BY <3>1, <3>2
    <2> QED
        BY <1>7, <2>2, <2>3, <2>4
<1>8. ASSUME NEW w \in Workers, HandlerPanics(w) \/ Crash(w)
      PROVE  Inv'
    <2>1. Dies(w) /\ faults' \in 0..MaxFaults
        BY <1>8, FaultType DEF HandlerPanics, Crash
    <2>2. TypeOK'
        BY <2>1 DEF Dies, TypeOK, Locations, redisVars
    <2>3. JobsInPlace'
        BY <2>1 DEF Dies, JobsInPlace, Busy, ServedBy, TypeOK, redisVars
    <2> QED
        BY <2>2, <2>3
<1>9. CASE UNCHANGED queueVars
    <2>1. TypeOK'
        BY <1>9 DEF queueVars, redisVars, workerVars, TypeOK
    <2>2. JobsInPlace'
        BY <1>9 DEF queueVars, redisVars, workerVars, JobsInPlace, Busy, ServedBy
    <2> QED
        BY <2>1, <2>2
<1> QED
    BY <1>1, <1>2, <1>3, <1>4, <1>5, <1>6, <1>7, <1>8, <1>9
    DEF Next, ClientStep, WorkerStep, ProcessStep

(* A worker holds a job exactly while it runs or records it, and only jobs *)
(* of the lists it serves (worker.go run, queue.go Pop).                   *)
THEOREM TypeAndPlace == Spec => []Inv
BY InitInv, StepInv, PTL DEF Spec

(* Jobs of a list with a single worker are run one at a time, so what only *)
(* they call is never called concurrently (queue.go:15-17).                *)
THEOREM Exclusive == Spec => []OneAtATime
<1>1. Inv => OneAtATime
    <2> SUFFICES ASSUME Inv, NEW u \in Busy, NEW w \in Busy,
                        job[u].queue = job[w].queue,
                        Cardinality(ServedBy(job[u].queue)) = 1
                 PROVE  u = w
        BY DEF OneAtATime
    <2>1. u \in ServedBy(job[u].queue) /\ w \in ServedBy(job[u].queue)
        BY DEF Inv, JobsInPlace, Busy
    <2>2. IsFiniteSet(ServedBy(job[u].queue))
        BY FS_Subset, JobQueueAssumption DEF ServedBy
    <2> QED
        BY <2>1, <2>2, FS_Singleton
<1> QED
    BY <1>1, TypeAndPlace, PTL

-----------------------------------------------------------------------------
LEMMA AppendIds ==
    ASSUME NEW s \in Seq(Job), NEW j \in Job
    PROVE  IdsIn(Append(s, j)) \subseteq IdsIn(s) \cup {j.id}
<1> SUFFICES ASSUME NEW i \in DOMAIN Append(s, j)
             PROVE  Append(s, j)[i].id \in IdsIn(s) \cup {j.id}
    BY DEF IdsIn
<1>1. i \in 1..(Len(s) + 1)
    BY AppendProperties, LenProperties
<1>2. CASE i = Len(s) + 1
    BY <1>2, AppendProperties
<1>3. CASE i \in 1..Len(s)
    BY <1>3, AppendProperties, LenProperties DEF IdsIn
<1> QED
    BY <1>1, <1>2, <1>3, LenProperties

LEMMA TailIds ==
    ASSUME NEW s \in Seq(Job), s # <<>>
    PROVE  IdsIn(Tail(s)) \subseteq IdsIn(s)
<1> SUFFICES ASSUME NEW i \in DOMAIN Tail(s)
             PROVE  Tail(s)[i].id \in IdsIn(s)
    BY DEF IdsIn
<1>1. i \in 1..(Len(s) - 1) /\ Tail(s)[i] = s[i + 1]
    BY HeadTailProperties, LenProperties
<1>2. i + 1 \in DOMAIN s
    BY <1>1, LenProperties
<1> QED
    BY <1>1, <1>2 DEF IdsIn

(* No worker puts a job back on a list: an id that comes back is that of a *)
(* push that its client sends again (queue.go Push, worker.go Run).        *)
THEOREM NoRequeue == Spec => NeverRequeued
<1> DEFINE Step ==
        \A id \in 1..pushed :
            (id \notin QueuedIds /\ id \in QueuedIds')
                => \E c \in Waiters : unanswered[c].id = id
<1>1. ASSUME Inv, Next PROVE Step
    <2> USE <1>1 DEF Inv
    <2>1. ASSUME NEW c \in Clients, NEW q \in Queues, NEW t \in Types, NEW p \in Payloads,
                 Push(c, q, t, p) \/ PushReplyLost(c, q, t, p)
          PROVE  Step
        <3>1. /\ queues' = [queues EXCEPT ![q] = Append(@, NewJob(q, t, p))]
              /\ NewJob(q, t, p) \in Job
              /\ NewJob(q, t, p).id = pushed + 1
            BY <2>1, JobQueueAssumption
            DEF Push, PushReplyLost, MayPush, NewJob, Job, TypeOK
        <3>2. QueuedIds' \subseteq QueuedIds \cup {pushed + 1}
            BY <3>1, AppendIds DEF QueuedIds, TypeOK
        <3> QED
            BY <3>2, JobQueueAssumption DEF TypeOK
    <2>2. ASSUME NEW c \in Clients, Resend(c)
          PROVE  Step
        <3>1. /\ unanswered[c] # NoJob
              /\ unanswered[c] \in Job
              /\ queues' = [queues EXCEPT ![unanswered[c].queue] = Append(@, unanswered[c])]
            BY <2>2 DEF Resend, TypeOK
        <3>2. QueuedIds' \subseteq QueuedIds \cup {unanswered[c].id}
            BY <3>1, AppendIds DEF QueuedIds, TypeOK
        <3> QED
            BY <3>1, <3>2 DEF Waiters
    <2>3. ASSUME NEW w \in Workers, NEW q \in Queues, IsNext(w, q),
                 queues' = [queues EXCEPT ![q] = Tail(@)]
          PROVE  Step
        <3>1. queues[q] # <<>>
            BY <2>3 DEF IsNext, Ready
        <3>2. QueuedIds' \subseteq QueuedIds
            BY <2>3, <3>1, TailIds DEF QueuedIds, TypeOK
        <3> QED
            BY <3>2
    <2>4. CASE UNCHANGED queues
        BY <2>4 DEF QueuedIds
    <2>5. CASE \E c \in Clients : PushFails(c) \/ GiveUp(c)
        BY <2>4, <2>5 DEF PushFails, GiveUp
    <2>6. ASSUME NEW w \in Workers, PopJob(w) \/ PopNothing(w)
          PROVE  Step
        BY <2>3, <2>4, <2>6 DEF PopJob, PopNothing
    <2>7. ASSUME NEW w \in Workers,
                 \/ CheckContext(w) \/ HandlerOk(w) \/ HandlerError(w)
                 \/ RecordFailure(w) \/ ProcessStep(w)
          PROVE  Step
        BY <2>4, <2>7 DEF CheckContext, HandlerOk, HandlerError, RecordFailure,
            ProcessStep, Start, Terminate, HandlerPanics, Crash, Dies, redisVars
    <2> QED
        BY <1>1, <2>1, <2>2, <2>5, <2>6, <2>7 DEF Next, ClientStep, WorkerStep
<1> QED
    BY <1>1, TypeAndPlace, PTL DEF Spec, NeverRequeued

-----------------------------------------------------------------------------
(***************************************************************************)
(* Where the id of a job may be, and that JobQueue implements              *)
(* JobLifecycle.                                                           *)
(***************************************************************************)
\* The lists after an append and after their head was taken.
LEMMA Appended ==
    ASSUME Inv, NEW j \in Job, queues' = [queues EXCEPT ![j.queue] = Append(@, j)]
    PROVE  /\ \A q \in Queues : DOMAIN queues[q] \subseteq DOMAIN queues'[q]
           /\ \A q \in Queues : \A i \in DOMAIN queues'[q] :
                 \/ i \in DOMAIN queues[q] /\ queues'[q][i] = queues[q][i]
                 \/ /\ q = j.queue /\ queues'[q][i] = j
                    /\ i = Len(queues[q]) + 1 /\ i \notin DOMAIN queues[q]
           /\ QueuedIds' = QueuedIds \cup {j.id}
<1> USE DEF Inv, TypeOK
<1>1. j.queue \in Queues
    BY DEF Job
<1>2. ASSUME NEW q \in Queues
      PROVE  /\ DOMAIN queues[q] \subseteq DOMAIN queues'[q]
             /\ \A i \in DOMAIN queues'[q] :
                   \/ i \in DOMAIN queues[q] /\ queues'[q][i] = queues[q][i]
                   \/ /\ q = j.queue /\ queues'[q][i] = j
                      /\ i = Len(queues[q]) + 1 /\ i \notin DOMAIN queues[q]
             /\ q = j.queue => \E i \in DOMAIN queues'[q] : queues'[q][i] = j
             /\ \A i \in DOMAIN queues[q] : queues'[q][i] = queues[q][i]
    <2>1. CASE q = j.queue
        <3> DEFINE s == queues[q]
        <3>1. /\ queues'[q] = Append(s, j) /\ s \in Seq(Job)
              /\ Append(s, j) \in Seq(Job)
              /\ Len(Append(s, j)) = Len(s) + 1
              /\ \A i \in 1..Len(s) : Append(s, j)[i] = s[i]
              /\ Append(s, j)[Len(s) + 1] = j
            BY <1>1, <2>1, AppendProperties
        <3>2. /\ DOMAIN s = 1..Len(s) /\ Len(s) \in Nat
              /\ DOMAIN Append(s, j) = 1..(Len(s) + 1)
            BY <3>1, LenProperties
        <3>3. \A i \in DOMAIN Append(s, j) : i \in DOMAIN s \/ (i = Len(s) + 1 /\ i \notin DOMAIN s)
            BY <3>2
        <3>4. DOMAIN s \subseteq DOMAIN Append(s, j) /\ Len(s) + 1 \in DOMAIN Append(s, j)
            BY <3>2
        <3>5. /\ \A i \in DOMAIN s : Append(s, j)[i] = s[i]
              /\ Append(s, j)[Len(s) + 1] = j
            BY <3>1, <3>2
        <3> QED
            BY <2>1, <3>1, <3>3, <3>4, <3>5
    <2>2. CASE q # j.queue
        BY <1>1, <2>2
    <2> QED
        BY <2>1, <2>2
<1>3. QueuedIds' = QueuedIds \cup {j.id}
    <2>1. QueuedIds' \subseteq QueuedIds \cup {j.id}
        BY <1>2 DEF QueuedIds, IdsIn
    <2>2. QueuedIds \subseteq QueuedIds'
        BY <1>2 DEF QueuedIds, IdsIn
    <2>3. j.id \in QueuedIds'
        <3>1. PICK i \in DOMAIN queues'[j.queue] : queues'[j.queue][i] = j
            BY <1>1, <1>2
        <3>2. j.id \in IdsIn(queues'[j.queue])
            BY <3>1 DEF IdsIn
        <3> QED
            BY <1>1, <3>2 DEF QueuedIds
    <2> QED
        BY <2>1, <2>2, <2>3
<1> QED
    BY <1>2, <1>3

LEMMA Taken ==
    ASSUME Inv, NEW w \in Workers, NEW q \in Queues, IsNext(w, q),
           queues' = [queues EXCEPT ![q] = Tail(@)]
    PROVE  /\ 1 \in DOMAIN queues[q] /\ Head(queues[q]) = queues[q][1]
           /\ \A i \in DOMAIN queues'[q] :
                 i + 1 \in DOMAIN queues[q] /\ queues'[q][i] = queues[q][i + 1]
           /\ \A p \in Queues \ {q} : queues'[p] = queues[p]
           /\ QueuedIds' \cup {Head(queues[q]).id} = QueuedIds
<1> USE DEF Inv, TypeOK
<1> DEFINE s == queues[q]
<1>1. s \in Seq(Job) /\ s # <<>> /\ queues'[q] = Tail(s)
    BY DEF IsNext, Ready
<1>2. /\ Tail(s) \in Seq(Job) /\ Len(Tail(s)) = Len(s) - 1
      /\ \A i \in 1..Len(Tail(s)) : Tail(s)[i] = s[i + 1]
    BY <1>1, HeadTailProperties
<1>3. /\ DOMAIN s = 1..Len(s) /\ Len(s) \in Nat /\ Len(s) > 0
      /\ DOMAIN Tail(s) = 1..(Len(s) - 1)
    BY <1>1, <1>2, LenProperties, EmptySeq
<1>4. Head(s) = s[1]
    BY <1>1, HeadTailProperties
<1>5. \A p \in Queues \ {q} : queues'[p] = queues[p]
    OBVIOUS
<1>6. IdsIn(Tail(s)) \cup {Head(s).id} = IdsIn(s)
    <2>1. IdsIn(Tail(s)) \cup {Head(s).id} \subseteq IdsIn(s)
        <3>1. \A i \in DOMAIN Tail(s) : i + 1 \in DOMAIN s /\ Tail(s)[i] = s[i + 1]
            BY <1>2, <1>3
        <3>2. 1 \in DOMAIN s
            BY <1>3
        <3> QED
            BY <1>4, <3>1, <3>2 DEF IdsIn
    <2>2. ASSUME NEW i \in DOMAIN s PROVE s[i].id \in IdsIn(Tail(s)) \cup {Head(s).id}
        <3>1. CASE i = 1
            BY <1>4, <3>1
        <3>2. CASE i # 1
            <4>1. i - 1 \in DOMAIN Tail(s) /\ Tail(s)[i - 1] = s[i]
                BY <1>2, <1>3, <3>2
            <4> QED
                BY <4>1 DEF IdsIn
        <3> QED
            BY <3>1, <3>2
    <2> QED
        BY <2>1, <2>2 DEF IdsIn
<1>7. QueuedIds' \cup {Head(s).id} = QueuedIds
    BY <1>1, <1>5, <1>6 DEF QueuedIds
<1> QED
    BY <1>1, <1>2, <1>3, <1>4, <1>5, <1>7

LEMMA TakenOnce ==
    ASSUME Inv, IdsInv, NEW w \in Workers, NEW q \in Queues, IsNext(w, q),
           queues' = [queues EXCEPT ![q] = Tail(@)]
    PROVE  Head(queues[q]).id \in resent \/ Head(queues[q]).id \notin QueuedIds'
<1> USE DEF Inv, TypeOK, IdsInv
<1> DEFINE h == Head(queues[q])
<1>1. /\ 1 \in DOMAIN queues[q] /\ h = queues[q][1]
      /\ \A i \in DOMAIN queues'[q] :
            i + 1 \in DOMAIN queues[q] /\ queues'[q][i] = queues[q][i + 1]
      /\ \A p \in Queues \ {q} : queues'[p] = queues[p]
    BY Taken
<1>2. queues' \in [Queues -> Seq(Job)]
    BY TailInv
<1>3. DOMAIN queues'[q] = 1..Len(queues'[q]) /\ Len(queues'[q]) \in Nat
    BY <1>2, LenProperties
<1> SUFFICES ASSUME h.id \in QueuedIds', h.id \notin resent PROVE FALSE
    OBVIOUS
<1>4. PICK p \in Queues : \E i \in DOMAIN queues'[p] : queues'[p][i].id = h.id
    BY DEF QueuedIds, IdsIn
<1>5. PICK i \in DOMAIN queues'[p] : queues'[p][i].id = h.id
    BY <1>4
<1>6. CASE p = q
    <2>1. /\ i + 1 \in DOMAIN queues[q] /\ queues[q][i + 1].id = queues[q][1].id
          /\ i + 1 # 1
        BY <1>1, <1>3, <1>5, <1>6
    <2> QED
        BY <1>1, <2>1 DEF InOnePlace
<1>7. CASE p # q
    <2>1. i \in DOMAIN queues[p] /\ queues[p][i].id = queues[q][1].id
        BY <1>1, <1>5, <1>7
    <2> QED
        BY <1>1, <1>7, <2>1 DEF InOnePlace
<1> QED
    BY <1>6, <1>7

-----------------------------------------------------------------------------
LEMMA IdsInit == Init => IdsInv
BY EmptySeq DEF Init, IdsInv, Issued, InOnePlace, InPushOrder, AllIds, QueuedIds,
    HeldIds, Busy, IdsIn, Waiters

\* A client pushes a new job or sends one again.
LEMMA AppendIdsInv ==
    ASSUME Inv, IdsInv, NEW j \in Job, UNCHANGED <<workerVars, failedJobs, processed>>,
           queues' = [queues EXCEPT ![j.queue] = Append(@, j)],
           NEW c \in Clients,
           \/ /\ j.id = pushed + 1 /\ pushed' = pushed + 1 /\ resent' = resent
              /\ unanswered' \in {unanswered, [unanswered EXCEPT ![c] = j]}
           \/ /\ j.id \in 1..pushed /\ pushed' = pushed /\ resent' = resent \cup {j.id}
              /\ unanswered' \in {unanswered, [unanswered EXCEPT ![c] = NoJob]}
    PROVE  IdsInv'
<1> USE DEF Inv, TypeOK, IdsInv
<1>1. /\ \A q \in Queues : \A i \in DOMAIN queues'[q] :
            \/ i \in DOMAIN queues[q] /\ queues'[q][i] = queues[q][i]
            \/ /\ q = j.queue /\ queues'[q][i] = j
               /\ i = Len(queues[q]) + 1 /\ i \notin DOMAIN queues[q]
      /\ QueuedIds' = QueuedIds \cup {j.id}
    BY Appended
<1>2. /\ pushed \in Nat
      /\ j.id \in resent' \/ (j.id = pushed + 1 /\ j.id \notin AllIds)
      /\ resent \subseteq resent'
      /\ resent' \subseteq resent \cup {j.id}
      /\ j.id \in 1..pushed' /\ 1..pushed \subseteq 1..pushed'
    BY JobQueueAssumption DEF Issued
<1>3. UNCHANGED <<job, Busy, HeldIds, processed, failedJobs>>
    BY DEF workerVars, Busy, HeldIds
<1>4. \A q \in Queues : \A i \in DOMAIN queues[q] : queues[q][i].id \in QueuedIds
    BY DEF QueuedIds, IdsIn
<1>5. \A q \in Queues : DOMAIN queues[q] = 1..Len(queues[q]) /\ Len(queues[q]) \in Nat
    BY LenProperties
<1>6. \A w \in Busy : job[w].id \in HeldIds
    BY DEF HeldIds
<1>7. Issued'
    <2>1. AllIds' \subseteq 1..pushed'
        BY <1>1, <1>2, <1>3 DEF Issued, AllIds
    <2>2. CASE /\ j.id = pushed + 1
               /\ unanswered' \in {unanswered, [unanswered EXCEPT ![c] = j]}
        <3>1. \A d \in Waiters' :
                 \/ d \in Waiters /\ unanswered'[d] = unanswered[d]
                 \/ d = c /\ unanswered'[d] = j
            BY <2>2 DEF Waiters
        <3>2. \A d \in Waiters : unanswered[d].id # j.id
            BY <1>2, <2>2 DEF Issued
        <3>3. \A d \in Waiters' : unanswered'[d].id \in 1..pushed'
            BY <1>2, <3>1 DEF Issued
        <3>4. ASSUME NEW d \in Waiters', NEW e \in Waiters',
                     unanswered'[d].id = unanswered'[e].id
              PROVE  d = e
            BY <3>1, <3>2, <3>4 DEF Issued
        <3> QED
            BY <2>1, <3>3, <3>4 DEF Issued
    <2>3. CASE unanswered' \in {unanswered, [unanswered EXCEPT ![c] = NoJob]}
        <3>1. \A d \in Waiters' : d \in Waiters /\ unanswered'[d] = unanswered[d]
            BY <2>3, JobQueueAssumption DEF Waiters
        <3> QED
            BY <1>2, <2>1, <3>1 DEF Issued
    <2> QED
        BY <2>2, <2>3
<1>8. InOnePlace'
    <2>1. ASSUME NEW q \in Queues, NEW p \in Queues,
                 NEW i \in DOMAIN queues'[q], NEW k \in DOMAIN queues'[p],
                 queues'[q][i].id = queues'[p][k].id, queues'[q][i].id \notin resent'
          PROVE  q = p /\ i = k
        <3>1. CASE i \in DOMAIN queues[q] /\ queues'[q][i] = queues[q][i]
            <4>1. queues[q][i].id # j.id
                BY <1>2, <1>4, <2>1, <3>1 DEF AllIds
            <4>2. k \in DOMAIN queues[p] /\ queues'[p][k] = queues[p][k]
                BY <1>1, <2>1, <3>1, <4>1
            <4> QED
                BY <1>2, <2>1, <3>1, <4>2 DEF InOnePlace
        <3>2. CASE q = j.queue /\ queues'[q][i] = j /\ i = Len(queues[q]) + 1
            <4>1. ~(k \in DOMAIN queues[p] /\ queues'[p][k] = queues[p][k])
                BY <1>2, <1>4, <2>1, <3>2 DEF AllIds
            <4> QED
                BY <1>1, <3>2, <4>1
        <3> QED
            BY <1>1, <3>1, <3>2
    <2>2. ASSUME NEW w \in Busy, job[w].id \notin resent'
          PROVE  /\ job[w].id \notin processed \cup failedJobs \cup QueuedIds'
                 /\ \A u \in Busy \ {w} : job[u].id # job[w].id
        BY <1>1, <1>2, <1>6, <2>2 DEF InOnePlace, AllIds
    <2>3. ASSUME NEW id \in QueuedIds' \ resent' PROVE id \notin processed \cup failedJobs
        BY <1>1, <1>2 DEF InOnePlace, AllIds
    <2> QED
        BY <1>3, <2>1, <2>2, <2>3 DEF InOnePlace
<1>9. InPushOrder'
    <2> SUFFICES ASSUME NEW q \in Queues, NEW k \in DOMAIN queues'[q],
                        queues'[q][k].id \notin resent'
                 PROVE  /\ \A i \in 1..(k - 1) : queues'[q][i].id < queues'[q][k].id
                        /\ \A w \in Busy : job[w].queue = q => job[w].id < queues'[q][k].id
        BY <1>3 DEF InPushOrder
    <2>1. queues' \in [Queues -> Seq(Job)] /\ DOMAIN queues'[q] = 1..Len(queues'[q])
          /\ Len(queues'[q]) \in Nat
        <3>1. queues' \in [Queues -> Seq(Job)]
            BY AppendProperties DEF Job
        <3> QED
            BY <3>1, LenProperties
    <2>2. CASE k \in DOMAIN queues[q] /\ queues'[q][k] = queues[q][k]
        <3>1. \A i \in 1..(k - 1) : i \in DOMAIN queues[q] /\ i \in DOMAIN queues'[q]
            BY <1>5, <2>1, <2>2
        <3>2. \A i \in 1..(k - 1) : queues'[q][i] = queues[q][i]
            BY <1>1, <3>1
        <3> QED
            BY <1>2, <2>2, <3>2 DEF InPushOrder
    <2>3. CASE q = j.queue /\ queues'[q][k] = j /\ k = Len(queues[q]) + 1
        <3>1. j.id = pushed + 1
            BY <1>2, <2>3
        <3>2. \A i \in 1..(k - 1) : i \in DOMAIN queues[q] /\ i \in DOMAIN queues'[q]
            BY <1>5, <2>1, <2>3
        <3>3. \A i \in 1..(k - 1) : queues'[q][i].id \in AllIds
            BY <1>1, <1>4, <3>2 DEF AllIds
        <3>4. \A id \in AllIds : id < pushed + 1
            BY <1>2 DEF Issued
        <3>5. \A w \in Busy : job[w].id \in AllIds
            BY <1>6 DEF AllIds
        <3> QED
            BY <2>3, <3>1, <3>3, <3>4, <3>5
    <2> QED
        BY <1>1, <2>2, <2>3
<1> QED
    BY <1>7, <1>8, <1>9

\* A pop whose job is held by w, or lost.
LEMMA TakeIdsInv ==
    ASSUME Inv, IdsInv, NEW w \in Workers, NEW q \in Queues, IsNext(w, q),
           queues' = [queues EXCEPT ![q] = Tail(@)],
           UNCHANGED <<unanswered, resent, pushed, failedJobs, processed>>,
           \/ w \notin Busy /\ job' = [job EXCEPT ![w] = Head(queues[q])]
           \/ UNCHANGED job
    PROVE  IdsInv'
<1> USE DEF Inv, TypeOK, IdsInv
<1> DEFINE h == Head(queues[q])
<1>1. /\ 1 \in DOMAIN queues[q] /\ h = queues[q][1]
      /\ \A i \in DOMAIN queues'[q] :
            i + 1 \in DOMAIN queues[q] /\ queues'[q][i] = queues[q][i + 1]
      /\ \A p \in Queues \ {q} : queues'[p] = queues[p]
      /\ QueuedIds' \cup {h.id} = QueuedIds
    BY Taken
<1>2. /\ queues' \in [Queues -> Seq(Job)]
      /\ h \in Job /\ h.queue = q
    BY TailInv
<1>3. \A p \in Queues : /\ DOMAIN queues[p] = 1..Len(queues[p]) /\ Len(queues[p]) \in Nat
                        /\ DOMAIN queues'[p] = 1..Len(queues'[p]) /\ Len(queues'[p]) \in Nat
    BY <1>2, LenProperties
<1>4. /\ Busy' \subseteq Busy \cup {w}
      /\ \A u \in Busy' : (u \in Busy /\ job'[u] = job[u])
                          \/ (u = w /\ u \notin Busy /\ job'[u] = h)
    BY <1>2, JobQueueAssumption DEF Busy
<1>5. HeldIds' \subseteq HeldIds \cup {h.id}
    BY <1>4 DEF HeldIds
<1>6. \A p \in Queues : \A i \in DOMAIN queues'[p] :
         LET k == IF p = q THEN i + 1 ELSE i
         IN  k \in DOMAIN queues[p] /\ queues'[p][i] = queues[p][k] /\ (p = q => k # 1)
    BY <1>1, <1>3
<1>7. h.id \in QueuedIds
    BY <1>1
<1>8. Issued'
    BY <1>1, <1>5 DEF Issued, AllIds, Waiters
<1>9. h.id \in resent \/ h.id \notin QueuedIds'
    BY TakenOnce
<1>10. InOnePlace'
    <2>1. ASSUME NEW p \in Queues, NEW r \in Queues,
                 NEW i \in DOMAIN queues'[p], NEW k \in DOMAIN queues'[r],
                 queues'[p][i].id = queues'[r][k].id, queues'[p][i].id \notin resent
          PROVE  p = r /\ i = k
        <3>1. PICK m \in DOMAIN queues[p] :
                 m = (IF p = q THEN i + 1 ELSE i) /\ queues'[p][i] = queues[p][m]
            BY <1>6
        <3>2. PICK n \in DOMAIN queues[r] :
                 n = (IF r = q THEN k + 1 ELSE k) /\ queues'[r][k] = queues[r][n]
            BY <1>6
        <3>3. p = r /\ m = n
            BY <2>1, <3>1, <3>2 DEF InOnePlace
        <3> QED
            BY <1>3, <3>1, <3>2, <3>3
    <2>2. ASSUME NEW u \in Busy', job'[u].id \notin resent
          PROVE  /\ job'[u].id \notin processed \cup failedJobs \cup QueuedIds'
                 /\ \A v \in Busy' \ {u} : job'[v].id # job'[u].id
        <3>1. \A v \in Busy : job[v].id \notin resent => job[v].id # h.id
            BY <1>7 DEF InOnePlace
        <3>2. CASE u \in Busy /\ job'[u] = job[u]
            <4>1. job[u].id # h.id
                BY <2>2, <3>1, <3>2
            <4>2. job[u].id \notin processed \cup failedJobs \cup QueuedIds'
                BY <1>1, <2>2, <3>2 DEF InOnePlace
            <4>3. \A v \in Busy \ {u} : job[v].id # job[u].id
                BY <2>2, <3>2 DEF InOnePlace
            <4> QED
                BY <1>4, <3>2, <4>1, <4>2, <4>3
        <3>3. CASE u = w /\ u \notin Busy /\ job'[u] = h
            <4>1. \A v \in Busy' \ {u} : v \in Busy /\ job'[v] = job[v]
                BY <1>4, <3>3
            <4>2. h.id \notin processed \cup failedJobs
                BY <1>7, <2>2, <3>3 DEF InOnePlace
            <4> QED
                BY <1>9, <2>2, <3>1, <3>3, <4>1, <4>2
        <3> QED
            BY <1>4, <3>2, <3>3
    <2>3. ASSUME NEW id \in QueuedIds' \ resent PROVE id \notin processed \cup failedJobs
        BY <1>1 DEF InOnePlace
    <2>4. \A p, r \in Queues : \A i \in DOMAIN queues'[p], k \in DOMAIN queues'[r] :
             (queues'[p][i].id = queues'[r][k].id /\ queues'[p][i].id \notin resent)
                 => p = r /\ i = k
        BY <2>1
    <2>5. \A u \in Busy' : job'[u].id \notin resent =>
             /\ job'[u].id \notin processed \cup failedJobs \cup QueuedIds'
             /\ \A v \in Busy' \ {u} : job'[v].id # job'[u].id
        BY <2>2
    <2> HIDE DEF Inv, TypeOK, IdsInv
    <2> QED
        BY <2>3, <2>4, <2>5 DEF InOnePlace
<1>11. InPushOrder'
    <2> SUFFICES ASSUME NEW p \in Queues, NEW k \in DOMAIN queues'[p],
                        queues'[p][k].id \notin resent
                 PROVE  /\ \A i \in 1..(k - 1) : queues'[p][i].id < queues'[p][k].id
                        /\ \A u \in Busy' : job'[u].queue = p => job'[u].id < queues'[p][k].id
        BY DEF InPushOrder
    <2>1. PICK n \in DOMAIN queues[p] :
             n = (IF p = q THEN k + 1 ELSE k) /\ queues'[p][k] = queues[p][n]
        BY <1>6
    <2>2. ASSUME NEW i \in 1..(k - 1) PROVE queues'[p][i].id < queues'[p][k].id
        <3>1. i \in DOMAIN queues'[p]
            BY <1>3
        <3>2. PICK m \in DOMAIN queues[p] :
                 m = (IF p = q THEN i + 1 ELSE i) /\ queues'[p][i] = queues[p][m]
            BY <1>6, <3>1
        <3>3. m \in 1..(n - 1)
            BY <1>3, <2>1, <3>2
        <3> QED
            BY <2>1, <3>2, <3>3 DEF InPushOrder
    <2>3. ASSUME NEW u \in Busy', job'[u].queue = p PROVE job'[u].id < queues'[p][k].id
        <3>1. CASE u \in Busy /\ job'[u] = job[u]
            BY <2>1, <2>3, <3>1 DEF InPushOrder
        <3>2. CASE job'[u] = h
            <4>1. p = q /\ 1 \in 1..(n - 1)
                BY <1>2, <1>3, <2>1, <2>3, <3>2
            <4> QED
                BY <1>1, <2>1, <3>2, <4>1 DEF InPushOrder
        <3> QED
            BY <1>4, <3>1, <3>2
    <2> QED
        BY <2>2, <2>3
<1> QED
    BY <1>8, <1>10, <1>11

\* A worker lets go of its job, which may be settled.
LEMMA ReleaseIdsInv ==
    ASSUME Inv, IdsInv, NEW w \in Busy,
           UNCHANGED <<queues, unanswered, resent, pushed>>,
           job' = [job EXCEPT ![w] = NoJob],
           processed' \cup failedJobs' \subseteq processed \cup failedJobs \cup {job[w].id}
    PROVE  IdsInv'
<1> USE DEF Inv, TypeOK, IdsInv
<1>1. /\ Busy' = Busy \ {w}
      /\ \A u \in Busy' : job'[u] = job[u]
      /\ QueuedIds' = QueuedIds
    BY DEF Busy, QueuedIds
<1>2. job[w].id \in HeldIds /\ HeldIds' \subseteq HeldIds
    BY <1>1 DEF HeldIds
<1>3. Issued'
    BY <1>1, <1>2 DEF Issued, AllIds, Waiters
<1>4. InOnePlace'
    <2>1. \A u \in Busy' : job[u].id \notin resent => job[u].id # job[w].id
        BY <1>1 DEF InOnePlace
    <2>2. \A id \in QueuedIds \ resent : id # job[w].id
        BY DEF InOnePlace
    <2> QED
        BY <1>1, <2>1, <2>2 DEF InOnePlace
<1>5. InPushOrder'
    BY <1>1 DEF InPushOrder
<1> QED
    BY <1>3, <1>4, <1>5

LEMMA IdsStep == Inv /\ IdsInv /\ [Next]_queueVars => IdsInv'
<1> SUFFICES ASSUME Inv, IdsInv, [Next]_queueVars PROVE IdsInv'
    OBVIOUS
<1> USE DEF Inv
<1>1. ASSUME NEW c \in Clients, NEW q \in Queues, NEW t \in Types, NEW p \in Payloads,
             Push(c, q, t, p) \/ PushReplyLost(c, q, t, p)
      PROVE  IdsInv'
    <2> DEFINE j == NewJob(q, t, p)
    <2>1. j \in Job /\ j.queue = q /\ j.id = pushed + 1
        BY <1>1, JobQueueAssumption DEF Push, PushReplyLost, MayPush, NewJob, Job, TypeOK
    <2> HIDE DEF j
    <2>2. /\ queues' = [queues EXCEPT ![q] = Append(@, j)] /\ pushed' = pushed + 1
          /\ UNCHANGED <<resent, workerVars, failedJobs, processed>>
          /\ unanswered' \in {unanswered, [unanswered EXCEPT ![c] = j]}
        BY <1>1 DEF Push, PushReplyLost, j
    <2> QED
        BY <2>1, <2>2, AppendIdsInv
<1>2. ASSUME NEW c \in Clients, Resend(c)
      PROVE  IdsInv'
    <2>1. /\ unanswered[c] \in Job /\ unanswered[c].id \in 1..pushed
          /\ unanswered' \in {unanswered, [unanswered EXCEPT ![c] = NoJob]}
        BY <1>2 DEF Resend, TypeOK, IdsInv, Issued, Waiters
    <2> QED
        BY <1>2, <2>1, AppendIdsInv DEF Resend
<1>3. ASSUME NEW c \in Clients, PushFails(c) \/ GiveUp(c)
      PROVE  IdsInv'
    <2>1. /\ UNCHANGED <<queues, resent, job, failedJobs, processed>>
          /\ pushed' \in {pushed, pushed + 1}
          /\ unanswered' \in {unanswered, [unanswered EXCEPT ![c] = NoJob]}
        BY <1>3 DEF PushFails, GiveUp, workerVars
    <2>2. UNCHANGED <<Busy, HeldIds, QueuedIds, AllIds>>
        BY <2>1 DEF Busy, HeldIds, QueuedIds, AllIds
    <2>3. \A d \in Waiters' : d \in Waiters /\ unanswered'[d] = unanswered[d]
        BY <2>1, JobQueueAssumption DEF Waiters, TypeOK
    <2>4. 1..pushed \subseteq 1..pushed'
        BY <2>1, JobQueueAssumption DEF TypeOK
    <2>5. Issued'
        BY <2>2, <2>3, <2>4 DEF IdsInv, Issued
    <2>6. InOnePlace' /\ InPushOrder'
        BY <2>1, <2>2 DEF IdsInv, InOnePlace, InPushOrder
    <2> QED
        BY <2>5, <2>6 DEF IdsInv
<1>4. ASSUME NEW w \in Workers, PopJob(w) \/ PopNothing(w)
      PROVE  IdsInv'
    <2>1. CASE PopJob(w)
        <3>1. w \notin Busy
            BY <2>1 DEF PopJob, JobsInPlace
        <3> QED
            BY <2>1, <3>1, TakeIdsInv DEF PopJob
    <2>2. CASE PopNothing(w) /\ queues' # queues
        BY <2>2, TakeIdsInv DEF PopNothing
    <2>3. CASE PopNothing(w) /\ queues' = queues
        BY <2>3 DEF PopNothing, IdsInv, Issued, InOnePlace, InPushOrder, AllIds, Busy,
            HeldIds, QueuedIds, Waiters
    <2> QED
        BY <1>4, <2>1, <2>2, <2>3
<1>5. ASSUME NEW w \in Workers, HandlerOk(w) \/ RecordFailure(w)
      PROVE  IdsInv'
    <2>1. w \in Busy
        BY <1>5 DEF HandlerOk, RecordFailure, JobsInPlace
    <2> QED
        BY <1>5, <2>1, ReleaseIdsInv DEF HandlerOk, RecordFailure, redisVars
<1>6. ASSUME NEW w \in Workers, HandlerPanics(w) \/ Crash(w)
      PROVE  IdsInv'
    <2>1. Dies(w)
        BY <1>6 DEF HandlerPanics, Crash
    <2>2. CASE w \in Busy
        BY <2>1, <2>2, ReleaseIdsInv DEF Dies, redisVars
    <2>3. CASE w \notin Busy
        <3>1. UNCHANGED <<queues, unanswered, resent, pushed, job, failedJobs, processed>>
            BY <2>1, <2>3 DEF Dies, redisVars, Busy, TypeOK
        <3> QED
            BY <3>1 DEF IdsInv, Issued, InOnePlace, InPushOrder, AllIds, Busy,
                HeldIds, QueuedIds, Waiters
    <2> QED
        BY <2>2, <2>3
<1>7. ASSUME UNCHANGED <<redisVars, job, failedJobs, processed>>
      PROVE  IdsInv'
    BY <1>7 DEF IdsInv, Issued, InOnePlace, InPushOrder, AllIds, Busy, HeldIds,
        QueuedIds, Waiters, redisVars
<1>8. ASSUME NEW w \in Workers,
             Start(w) \/ CheckContext(w) \/ Terminate(w) \/ HandlerError(w)
      PROVE  IdsInv'
    BY <1>7, <1>8 DEF Start, CheckContext, Terminate, HandlerError
<1>9. CASE UNCHANGED queueVars
    BY <1>7, <1>9 DEF queueVars, workerVars
<1> QED
    BY <1>1, <1>2, <1>3, <1>4, <1>5, <1>6, <1>8, <1>9
    DEF Next, ClientStep, WorkerStep, ProcessStep

(* Every id was issued, a job that was pushed once is in one place, and    *)
(* lists are in the order of the pushes (queue.go Push and Pop).           *)
THEOREM IdsInPlace == Spec => []IdsInv
BY TypeAndPlace, IdsInit, IdsStep, PTL DEF Spec

(* A job that was pushed once is run once (worker.go:91).                  *)
THEOREM RunsOnce == Spec => []RunOnce
<1>1. Inv /\ IdsInv => RunOnce
    BY DEF Inv, JobsInPlace, IdsInv, InOnePlace, RunOnce
<1> QED
    BY <1>1, TypeAndPlace, IdsInPlace, PTL

(* Jobs that were pushed once are run in the order of their pushes         *)
(* (queue.go Push and Pop).                                                *)
THEOREM FirstInFirstOut == Spec => []InPushOrder
BY IdsInPlace, PTL DEF IdsInv

-----------------------------------------------------------------------------
LEMMA LifeInit == Init => Life!Init
BY EmptySeq DEF Init, Life!Init, OpenIds, Waiters, QueuedIds, IdsIn, HeldIds, Busy

\* What the worker w holds is what it held, or nothing.
LEMMA ReleaseLeaves ==
    ASSUME Inv, IdsInv, NEW w \in Busy, job' = [job EXCEPT ![w] = NoJob], UNCHANGED resent
    PROVE  job[w].id \in HeldIds /\ HeldIds' \in Life!Leaves(job[w].id, HeldIds)
<1> USE DEF Inv, TypeOK, IdsInv
<1>1. Busy' = Busy \ {w} /\ \A u \in Busy' : job'[u] = job[u]
    BY DEF Busy
<1>2. job[w].id \in HeldIds /\ HeldIds' \subseteq HeldIds
    BY <1>1 DEF HeldIds
<1>3. HeldIds \ {job[w].id} \subseteq HeldIds'
    BY <1>1 DEF HeldIds
<1>4. CASE job[w].id \in resent
    <2>1. HeldIds' = HeldIds \/ HeldIds' = HeldIds \ {job[w].id}
        BY <1>2, <1>3
    <2> QED
        BY <1>2, <1>4, <2>1 DEF Life!Leaves
<1>5. CASE job[w].id \notin resent
    <2>1. job[w].id \notin HeldIds'
        BY <1>1, <1>5 DEF HeldIds, InOnePlace
    <2>2. HeldIds' = HeldIds \ {job[w].id}
        BY <1>2, <1>3, <2>1
    <2> QED
        BY <1>2, <2>2 DEF Life!Leaves
<1> QED
    BY <1>4, <1>5

\* A pop takes an id from the waiting jobs.
LEMMA TakeLeaves ==
    ASSUME Inv, IdsInv, IdsInv', NEW w \in Workers, NEW q \in Queues, IsNext(w, q),
           queues' = [queues EXCEPT ![q] = Tail(@)], UNCHANGED resent
    PROVE  LET id == Head(queues[q]).id
           IN  /\ id \in QueuedIds
               /\ id \notin resent => id \notin HeldIds \cup processed \cup failedJobs
               /\ id \in resent \/ id \notin QueuedIds' => QueuedIds' \in Life!Leaves(id, QueuedIds)
<1> DEFINE id == Head(queues[q]).id
<1>1. QueuedIds' \cup {id} = QueuedIds
    BY Taken
<1>2. id \notin resent => id \notin HeldIds \cup processed \cup failedJobs
    BY <1>1 DEF IdsInv, InOnePlace, HeldIds
<1>3. QueuedIds' = QueuedIds \/ QueuedIds' = QueuedIds \ {id}
    BY <1>1
<1> QED
    BY <1>1, <1>2, <1>3 DEF Life!Leaves

LEMMA LifeStep == Inv /\ IdsInv /\ IdsInv' /\ [Next]_queueVars => [Life!Next]_Life!jobVars
<1> SUFFICES ASSUME Inv, IdsInv, IdsInv', [Next]_queueVars
             PROVE  Life!Next \/ UNCHANGED Life!jobVars
    OBVIOUS
<1>0. pushed \in 0..MaxJobs /\ faults \in 0..MaxFaults
    BY DEF Inv, TypeOK
<1>1. UNCHANGED workerVars => UNCHANGED HeldIds
    BY DEF workerVars, HeldIds, Busy
<1>2. UNCHANGED unanswered => UNCHANGED OpenIds
    BY DEF OpenIds, Waiters
<1>3. ASSUME NEW c \in Clients, NEW q \in Queues, NEW t \in Types, NEW p \in Payloads,
             Push(c, q, t, p) \/ PushReplyLost(c, q, t, p)
      PROVE  Life!Issue
    <2> DEFINE j == NewJob(q, t, p)
    <2>1. /\ j \in Job /\ j.queue = q /\ j.id = pushed'
          /\ pushed < MaxJobs /\ pushed' = pushed + 1
          /\ unanswered[c] = NoJob
        BY <1>3, JobQueueAssumption
        DEF Push, PushReplyLost, MayPush, NewJob, Job, Inv, TypeOK
    <2> HIDE DEF j
    <2>2. /\ queues' = [queues EXCEPT ![q] = Append(@, j)]
          /\ UNCHANGED <<resent, workerVars, failedJobs, processed>>
        BY <1>3 DEF Push, PushReplyLost, j
    <2>3. QueuedIds' = QueuedIds \cup {pushed'}
        BY <2>1, <2>2, Appended
    <2>4. CASE UNCHANGED <<unanswered, faults>>
        BY <1>1, <1>2, <2>1, <2>2, <2>3, <2>4 DEF Life!Issue
    <2>5. CASE unanswered' = [unanswered EXCEPT ![c] = j] /\ faults' = faults + 1
        <3>1. OpenIds' = OpenIds \cup {pushed'}
            BY <2>1, <2>5, JobQueueAssumption DEF OpenIds, Waiters, Inv, TypeOK
        <3> QED
            BY <1>1, <2>1, <2>2, <2>3, <2>5, <3>1 DEF Life!Issue, Life!Fails
    <2> QED
        BY <1>3, <2>4, <2>5 DEF Push, PushReplyLost, Fault, j
<1>4. ASSUME NEW c \in Clients, PushFails(c)
      PROVE  Life!Issue
    <2>1. UNCHANGED QueuedIds
        BY <1>4 DEF PushFails, QueuedIds
    <2> QED
        BY <1>1, <1>2, <1>4, <2>1 DEF PushFails, MayPush, Fault, Life!Issue, Life!Fails
<1>5. ASSUME NEW c \in Clients, c \in Waiters, unanswered' = [unanswered EXCEPT ![c] = NoJob]
      PROVE  OpenIds' = OpenIds \ {unanswered[c].id}
    <2>1. Waiters' = Waiters \ {c} /\ \A d \in Waiters' : unanswered'[d] = unanswered[d]
        BY <1>5 DEF Waiters, Inv, TypeOK
    <2>2. \A d \in Waiters' : unanswered[d].id # unanswered[c].id
        BY <1>5, <2>1 DEF IdsInv, Issued
    <2> QED
        BY <2>1, <2>2 DEF OpenIds
<1>6. ASSUME NEW c \in Clients, Resend(c)
      PROVE  \E id \in 1..pushed : Life!Return(id)
    <2> DEFINE j == unanswered[c]
    <2>1. c \in Waiters /\ j \in Job /\ j.id \in 1..pushed /\ j.id \in OpenIds
        BY <1>6 DEF Resend, Waiters, Inv, TypeOK, IdsInv, Issued, OpenIds
    <2>2. QueuedIds' = QueuedIds \cup {j.id}
        BY <1>6, <2>1, Appended DEF Resend
    <2>3. Life!Return(j.id)
        <3>1. CASE unanswered' = [unanswered EXCEPT ![c] = NoJob] /\ UNCHANGED faults
            BY <1>1, <1>5, <1>6, <2>1, <2>2, <3>1 DEF Resend, Life!Return
        <3>2. CASE Fault("reply") /\ UNCHANGED unanswered
            BY <1>1, <1>2, <1>6, <2>1, <2>2, <3>2 DEF Resend, Fault, Life!Return, Life!Fails
        <3> QED
            BY <1>6, <3>1, <3>2 DEF Resend
    <2> QED
        BY <2>1, <2>3
<1>7. ASSUME NEW c \in Clients, GiveUp(c)
      PROVE  \E id \in 1..pushed : Life!GiveUp(id)
    <2>1. /\ c \in Waiters /\ unanswered[c].id \in 1..pushed
          /\ unanswered[c].id \in OpenIds
        BY <1>7 DEF GiveUp, Waiters, IdsInv, Issued, OpenIds
    <2>2. UNCHANGED QueuedIds
        BY <1>7 DEF GiveUp, QueuedIds
    <2>3. Life!GiveUp(unanswered[c].id)
        BY <1>1, <1>5, <1>7, <2>1, <2>2 DEF GiveUp, Life!GiveUp
    <2> QED
        BY <2>1, <2>3
<1>8. ASSUME NEW w \in Workers, NEW q \in Queues, IsNext(w, q),
             queues' = [queues EXCEPT ![q] = Tail(@)], UNCHANGED resent,
             UNCHANGED job \/ job' = [job EXCEPT ![w] = Head(queues[q])]
      PROVE  /\ Head(queues[q]).id \in 1..pushed
             /\ Head(queues[q]).id \in QueuedIds
             /\ QueuedIds' \in Life!Leaves(Head(queues[q]).id, QueuedIds)
    <2> DEFINE id == Head(queues[q]).id
    <2>1. id \in QueuedIds /\ id \in 1..pushed
        BY <1>8, TakeLeaves DEF IdsInv, Issued, AllIds
    <2>2. id \in resent \/ id \notin QueuedIds'
        BY <1>8, TakenOnce
    <2> QED
        BY <1>8, <2>1, <2>2, TakeLeaves
<1>9. ASSUME NEW w \in Workers, PopJob(w)
      PROVE  \E id \in 1..pushed : Life!Take(id)
    <2>1. PICK q \in Queues :
             /\ IsNext(w, q)
             /\ queues' = [queues EXCEPT ![q] = Tail(@)]
             /\ job' = [job EXCEPT ![w] = Head(queues[q])]
             /\ UNCHANGED <<unanswered, resent, pushed, failedJobs, processed, faults>>
        BY <1>9 DEF PopJob
    <2> DEFINE id == Head(queues[q]).id
    <2>2. HeldIds' = HeldIds \cup {id}
        <3>1. w \notin Busy
            BY <1>9 DEF PopJob, Inv, JobsInPlace
        <3>2. Head(queues[q]) \in Job
            BY <2>1, TailInv
        <3>3. /\ Busy' = Busy \cup {w} /\ job'[w] = Head(queues[q])
              /\ \A u \in Busy : job'[u] = job[u]
            BY <2>1, <3>1, <3>2, JobQueueAssumption DEF Busy, Inv, TypeOK
        <3> QED
            BY <3>3 DEF HeldIds
    <2>3. id \in resent \/ id \notin HeldIds \cup processed \cup failedJobs
        BY <2>1, TakeLeaves
    <2>4. Life!Take(id)
        BY <1>2, <1>8, <2>1, <2>2, <2>3 DEF Life!Take
    <2> QED
        BY <1>8, <2>1, <2>4
<1>10. ASSUME NEW w \in Workers, PopNothing(w)
       PROVE  Life!Next \/ UNCHANGED Life!jobVars
    <2>0. /\ UNCHANGED <<OpenIds, HeldIds>>
          /\ UNCHANGED <<unanswered, resent, pushed, job, failedJobs, processed>>
        BY <1>2, <1>10 DEF PopNothing, HeldIds, Busy
    <2>1. CASE UNCHANGED queues
        <3>1. UNCHANGED QueuedIds
            BY <2>1 DEF QueuedIds
        <3>2. UNCHANGED faults \/ faults' = faults + 1
            BY <1>10 DEF PopNothing, Fault
        <3> QED
            BY <2>0, <3>1, <3>2 DEF Life!Next, Life!Survive, Life!Fails, Life!jobVars
    <2>2. ASSUME NEW q \in Queues, Fault("popReply"), IsNext(w, q),
                 queues' = [queues EXCEPT ![q] = Tail(@)]
          PROVE  Life!Next
        <3>1. Life!LoseWaiting(Head(queues[q]).id)
            BY <1>8, <2>0, <2>2 DEF Fault, Life!LoseWaiting, Life!Fails
        <3> QED
            BY <1>8, <2>0, <2>2, <3>1 DEF Life!Next
    <2> QED
        BY <1>10, <2>1, <2>2 DEF PopNothing
<1>11. ASSUME NEW w \in Busy, job' = [job EXCEPT ![w] = NoJob],
              UNCHANGED <<redisVars>>,
              \/ /\ processed' \cup failedJobs' = processed \cup failedJobs \cup {job[w].id}
                 /\ UNCHANGED faults
              \/ UNCHANGED <<processed, failedJobs>> /\ faults' = faults + 1
       PROVE  \E id \in 1..pushed : Life!Leave(id)
    <2>1. job[w].id \in HeldIds /\ HeldIds' \in Life!Leaves(job[w].id, HeldIds)
        BY <1>11, ReleaseLeaves DEF redisVars
    <2>2. UNCHANGED <<QueuedIds, OpenIds, resent, pushed>>
        BY <1>2, <1>11 DEF redisVars, QueuedIds
    <2>3. Life!Leave(job[w].id)
        BY <1>11, <2>1, <2>2 DEF Life!Leave, Life!Fails
    <2> QED
        BY <2>1, <2>3 DEF IdsInv, Issued, AllIds
<1>12. ASSUME NEW w \in Workers, HandlerOk(w) \/ RecordFailure(w)
       PROVE  \E id \in 1..pushed : Life!Leave(id)
    <2>1. w \in Busy
        BY <1>12 DEF HandlerOk, RecordFailure, Inv, JobsInPlace
    <2> QED
        BY <1>11, <1>12, <2>1 DEF HandlerOk, RecordFailure, Fault
<1>13. ASSUME UNCHANGED <<redisVars, job, failedJobs, processed>>,
              UNCHANGED faults \/ faults' = faults + 1
       PROVE  Life!Survive \/ UNCHANGED Life!jobVars
    <2>1. UNCHANGED <<QueuedIds, HeldIds, OpenIds, resent, pushed, failedJobs, processed>>
        BY <1>2, <1>13 DEF redisVars, QueuedIds, HeldIds, Busy
    <2> QED
        BY <1>13, <2>1 DEF Life!Survive, Life!Fails, Life!jobVars
<1>14. ASSUME NEW w \in Workers, HandlerPanics(w) \/ Crash(w)
       PROVE  Life!Next \/ UNCHANGED Life!jobVars
    <2>1. Dies(w) /\ faults' = faults + 1
        BY <1>14 DEF HandlerPanics, Crash, Fault
    <2>2. CASE w \in Busy
        BY <1>11, <2>1, <2>2 DEF Dies, Life!Next
    <2>3. CASE w \notin Busy
        <3>1. UNCHANGED job
            BY <2>1, <2>3 DEF Dies, Busy, Inv, TypeOK
        <3> QED
            BY <1>13, <2>1, <3>1 DEF Dies, Life!Next
    <2> QED
        BY <2>2, <2>3
<1>15. ASSUME NEW w \in Workers,
              Start(w) \/ CheckContext(w) \/ Terminate(w) \/ HandlerError(w)
       PROVE  Life!Survive \/ UNCHANGED Life!jobVars
    BY <1>13, <1>15 DEF Start, CheckContext, Terminate, HandlerError, Fault
<1>16. CASE UNCHANGED queueVars
    <2>1. UNCHANGED <<redisVars, job, failedJobs, processed>> /\ UNCHANGED faults
        BY <1>16 DEF queueVars, redisVars, workerVars
    <2> QED
        BY <1>13, <2>1 DEF Life!Next
<1> QED
    BY <1>3, <1>4, <1>6, <1>7, <1>9, <1>10, <1>12, <1>14, <1>15, <1>16
    DEF Next, ClientStep, WorkerStep, ProcessStep, Life!Next

(* The lists, workers and clients implement the life of a job              *)
(* (queue.go Push and Pop, worker.go run and recordFailure).               *)
THEOREM ImplementsLifecycle == Spec => Lifecycle
BY LifeInit, LifeStep, TypeAndPlace, IdsInPlace, PTL DEF Spec, Lifecycle, Life!Spec

LifeProofs == INSTANCE JobLifecycleProofs WITH
    issued  <- pushed,
    open    <- OpenIds,
    waiting <- QueuedIds,
    running <- HeldIds,
    settled <- processed \cup failedJobs

(* Every job that is on no list, in no worker, neither processed nor in    *)
(* failed_jobs has been paid for by a fault (worker.go run).               *)
THEOREM NoJobLostInSilence == Spec => []Accounted
<1>1. LifeProofs!Spec => []LifeProofs!Accounted
    BY LifeProofs!NoneLostInSilence
<1>2. Life!Init <=> LifeProofs!Init
    BY DEF Life!Init, LifeProofs!Init
<1>3. [Life!Next]_(Life!jobVars) <=> [LifeProofs!Next]_(LifeProofs!jobVars)
    BY DEF Life!Next, LifeProofs!Next, Life!jobVars, LifeProofs!jobVars,
        Life!Issue, LifeProofs!Issue, Life!Return, LifeProofs!Return,
        Life!GiveUp, LifeProofs!GiveUp, Life!Take, LifeProofs!Take,
        Life!LoseWaiting, LifeProofs!LoseWaiting, Life!Leave, LifeProofs!Leave,
        Life!Survive, LifeProofs!Survive, Life!Leaves, LifeProofs!Leaves,
        Life!Fails, LifeProofs!Fails
<1>4. LifeProofs!Accounted <=> Accounted
    BY DEF Accounted, Life!Accounted, LifeProofs!Accounted, Life!Missing, LifeProofs!Missing,
        Life!Cardinality, LifeProofs!Cardinality
<1> QED
    BY <1>1, <1>2, <1>3, <1>4, ImplementsLifecycle, PTL
    DEF Lifecycle, Life!Spec, LifeProofs!Spec

-----------------------------------------------------------------------------
(***************************************************************************)
(* With fewer kinds of faults.                                             *)
(***************************************************************************)
NobodyWaits == resent = {} /\ \A c \in Clients : unanswered[c] = NoJob

LEMMA NobodyEverWaits ==
    ASSUME "reply" \notin FaultKinds
    PROVE  Spec => []NobodyWaits
<1>1. Init => NobodyWaits
    BY DEF Init, NobodyWaits
<1>2. ASSUME NobodyWaits, [Next]_queueVars
      PROVE  NobodyWaits'
    <2>1. ASSUME NEW c \in Clients, ClientStep(c)
          PROVE  UNCHANGED <<resent, unanswered>>
        BY <1>2, <2>1
        DEF ClientStep, Push, PushReplyLost, PushFails, Resend, GiveUp, Fault, NobodyWaits
    <2>2. ASSUME NEW w \in Workers, WorkerStep(w) \/ ProcessStep(w)
          PROVE  UNCHANGED <<resent, unanswered>>
        BY <2>2
        DEF WorkerStep, ProcessStep, CheckContext, PopJob, PopNothing, HandlerOk, HandlerError,
            RecordFailure, Start, Terminate, HandlerPanics, Crash, Dies, redisVars
    <2>3. UNCHANGED <<resent, unanswered>>
        BY <1>2, <2>1, <2>2 DEF Next, queueVars, redisVars
    <2> QED
        BY <1>2, <2>3 DEF NobodyWaits
<1> QED
    BY <1>1, <1>2, PTL DEF Spec

(* Jobs "are run once and are not retried" (worker.go:91) when no reply to *)
(* a push is ever lost, whatever else fails or crashes: only a push that   *)
(* the client sends again makes the comment wrong.                         *)
THEOREM RunsOnceWithoutResend ==
    ASSUME "reply" \notin FaultKinds
    PROVE  Spec => []JobsRunOnce
<1>1. NobodyWaits /\ RunOnce => JobsRunOnce
    BY DEF NobodyWaits, RunOnce, JobsRunOnce
<1> QED
    BY <1>1, NobodyEverWaits, RunsOnce, PTL

(* Where nothing fails and no process is killed, a job that was pushed is  *)
(* on a list, in a worker, processed or in failed_jobs, whenever workers   *)
(* are told to end (worker.go Run, run).                                   *)
THEOREM NothingLostWithoutFaults ==
    ASSUME MaxFaults = 0
    PROVE  Spec => [](1..pushed \subseteq QueuedIds \cup HeldIds \cup processed \cup failedJobs)
<1>1. Inv /\ IdsInv /\ Accounted
        => 1..pushed \subseteq QueuedIds \cup HeldIds \cup processed \cup failedJobs
    <2> SUFFICES ASSUME Inv, IdsInv, Accounted
                 PROVE  1..pushed \subseteq QueuedIds \cup HeldIds \cup processed \cup failedJobs
        OBVIOUS
    <2> DEFINE missing == (1..pushed) \ (QueuedIds \cup HeldIds \cup (processed \cup failedJobs))
    <2>1. pushed \in Nat /\ faults = 0
        BY JobQueueAssumption DEF Inv, TypeOK
    <2>2. Life!Missing = missing
        BY DEF Life!Missing
    <2>3. IsFiniteSet(missing)
        <3>1. IsFiniteSet(1..pushed)
            BY <2>1, FS_Interval
        <3>2. missing \subseteq 1..pushed
            OBVIOUS
        <3> HIDE DEF missing
        <3> QED
            BY <3>1, <3>2, FS_Subset
    <2> HIDE DEF missing
    <2>5. Cardinality(missing) <= 0
        BY <2>1, <2>2 DEF Accounted, Life!Accounted, Life!Cardinality, Cardinality
    <2>4. missing = {}
        BY <2>3, <2>5, FS_CardinalityType, FS_EmptySet
    <2> QED
        BY <2>4 DEF missing
<1> QED
    BY <1>1, TypeAndPlace, IdsInPlace, NoJobLostInSilence, PTL
=============================================================================
