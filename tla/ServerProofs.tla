---------------------------- MODULE ServerProofs ----------------------------
(***************************************************************************)
(* Proofs about the process "velo serve", for any clients, requests,       *)
(* environments, files and faults.  ServerInv is inductive as it stands;   *)
(* what cuts a request off and what makes an answer fail follow from it.   *)
(***************************************************************************)
EXTENDS Server, FiniteTheorems

LEMMA NobodyIsNoClient == Nobody \notin Clients
  BY ServerAssumption DEF ServerAssumption

LEMMA FaultsStayBounded ==
  ASSUME faults \in 0..MaxFaults, NEW kind, Fault(kind)
  PROVE  /\ faults' \in 0..MaxFaults
         /\ faults' = faults + 1
  BY ServerAssumption DEF ServerAssumption, Fault

LEMMA DirectIsACode == \A request : Direct(request) \in Codes
  BY DEF Direct, Codes

-----------------------------------------------------------------------------
LEMMA InitInv == Init => ServerInv
  <1> SUFFICES ASSUME Init
               PROVE  ServerInv
      OBVIOUS
  <1>1. TypeOK
    <2>1. faults \in 0..MaxFaults
        BY ServerAssumption DEF Init, ServerAssumption
    <2>2. stage \in [Clients -> Stages] /\ status \in [Clients -> Codes]
        BY DEF Init, Stages, Codes
    <2> QED
        BY <2>1, <2>2 DEF Init, TypeOK, Places
  <1>2. ConnectionInUse
      BY NobodyIsNoClient DEF Init, ConnectionInUse
  <1>3. InProgress
      BY DEF Init, InProgress
  <1> QED
      BY <1>1, <1>2, <1>3 DEF ServerInv

(* The end of the process, whatever led to it. *)
LEMMA EndsKeepsInv ==
  ASSUME ServerInv, Ends, faults' \in 0..MaxFaults
  PROVE  ServerInv'
  <1> USE DEF ServerInv, TypeOK, Ends, Goto
  <1>1. TypeOK'
      BY DEF Places, Stages, Codes
  <1>2. ConnectionInUse'
      BY NobodyIsNoClient DEF ConnectionInUse
  <1>3. InProgress'
      BY DEF InProgress
  <1> QED
      BY <1>1, <1>2, <1>3

(* Steps of the main goroutine leave the requests alone. *)
LEMMA MainKeepsInv ==
  ASSUME ServerInv,
         Start \/ Open \/ Listen \/ ServeReturns \/ CloseDatabase \/ Signal \/ Shutdown
  PROVE  ServerInv'
  <1> USE DEF ServerInv
  <1>1. UNCHANGED <<conn, requestVars>>
      BY DEF Start, Open, Listen, ServeReturns, CloseDatabase, Signal, Shutdown
  <1>2. conn' = conn /\ stage' = stage /\ call' = call /\ status' = status
        /\ allow' = allow /\ gone' = gone
      BY <1>1 DEF requestVars
  <1>3. faults' \in 0..MaxFaults
      BY FaultsStayBounded
      DEF TypeOK, Start, Open, Listen, ServeReturns, CloseDatabase, Signal, Shutdown
  <1>4. /\ setup' \in [environment: Environments, lines: Files]
        /\ config' = LoadSetup(setup')
      <2>1. CASE Start
          BY <2>1 DEF Start
      <2>2. CASE Open \/ Listen \/ ServeReturns \/ CloseDatabase \/ Signal \/ Shutdown
        <3>1. setup' = setup /\ config' = config
            BY <2>2
            DEF Open, Listen, ServeReturns, CloseDatabase, Signal, Shutdown, Goto
        <3> QED
            BY <3>1 DEF TypeOK, LoadSetup
      <2> QED
          BY <2>1, <2>2
  <1>5. main' \in Places /\ ctxDone' \in BOOLEAN /\ shut' \in BOOLEAN
      BY DEF TypeOK, Places, Start, Open, Listen, ServeReturns, CloseDatabase,
             Signal, Shutdown, Goto
  <1>6. TypeOK'
      BY <1>2, <1>3, <1>4, <1>5 DEF TypeOK
  <1>7. ConnectionInUse'
      BY <1>2 DEF ConnectionInUse
  <1>8. InProgress'
      BY <1>2
      DEF InProgress, Start, Open, Listen, ServeReturns, CloseDatabase, Signal,
          Shutdown, Goto
  <1> QED
      BY <1>6, <1>7, <1>8

(* A step of one request, which main and its settings do not take part in. *)
LEMMA RequestKeepsInv ==
  ASSUME ServerInv, NEW c \in Clients,
         Arrive(c) \/ Route(c) \/ Query(c) \/ Refuse(c) \/ Result(c)
           \/ Written(c) \/ Leave(c)
  PROVE  ServerInv'
  <1> USE DEF ServerInv
  <1>1. main' = main /\ setup' = setup /\ config' = config
        /\ ctxDone' = ctxDone /\ shut' = shut
      BY DEF Arrive, Route, Query, Refuse, Result, Written, Leave, processVars
  <1>2. faults' \in 0..MaxFaults
      BY FaultsStayBounded
      DEF TypeOK, Arrive, Route, Query, Refuse, Result, Written, Leave
  <1>3. stage' \in [Clients -> Stages] /\ conn' \in Clients \cup {Nobody}
      BY DEF TypeOK, Stages, Arrive, Route, Query, Refuse, Result, Written, Leave, Answer
  <1>4. call' \in [Clients -> Sends]
      BY DEF TypeOK, Arrive, Route, Query, Refuse, Result, Written, Leave
  <1>5. status' \in [Clients -> Codes]
      BY DirectIsACode
      DEF TypeOK, Codes, Arrive, Route, Query, Refuse, Result, Written, Leave, Answer
  <1>6. allow' \subseteq Clients /\ gone' \subseteq Clients
      BY DEF TypeOK, Arrive, Route, Query, Refuse, Result, Written, Leave
  <1>7. TypeOK'
    <2>1. config' = LoadSetup(setup')
        BY <1>1 DEF TypeOK, LoadSetup
    <2> QED
        BY <1>1, <1>2, <1>3, <1>4, <1>5, <1>6, <2>1 DEF TypeOK
  <1>8. ConnectionInUse'
      BY NobodyIsNoClient
      DEF ConnectionInUse, TypeOK, Stages, Arrive, Route, Query, Refuse, Result,
          Written, Leave, Answer
  <1>9. InProgress'
    <2>1. (main = "serving" /\ ~shut) \/ stage[c] # "idle"
        BY DEF Arrive, Route, Query, Refuse, Result, Written, Leave
    <2> QED
        BY <1>1, <2>1 DEF InProgress
  <1> QED
      BY <1>7, <1>8, <1>9

LEMMA NextKeepsInv ==
  ASSUME ServerInv, [Next]_vars
  PROVE  ServerInv'
  <1>1. CASE Start \/ Open \/ Listen \/ ServeReturns \/ CloseDatabase \/ Signal \/ Shutdown
      BY <1>1, MainKeepsInv
  <1>2. CASE Exit
      BY <1>2, EndsKeepsInv DEF Exit, ServerInv, TypeOK
  <1>3. CASE Kill
      BY <1>3, EndsKeepsInv, FaultsStayBounded DEF Kill, ServerInv, TypeOK
  <1>4. ASSUME NEW c \in Clients,
               Arrive(c) \/ HandlerStep(c) \/ Query(c) \/ Written(c) \/ Leave(c)
        PROVE  ServerInv'
      BY <1>4, RequestKeepsInv DEF HandlerStep
  <1>5. CASE UNCHANGED vars
      BY <1>5
      DEF ServerInv, TypeOK, ConnectionInUse, InProgress, LoadSetup, vars,
          processVars, requestVars
  <1> QED
      BY <1>1, <1>2, <1>3, <1>4, <1>5 DEF Next, MainStep

(* The connection is in use exactly by the handler that runs its query,    *)
(* requests are only in progress in a process that has served, and their   *)
(* database is closed only after a signal (database.go:40, serve.go).      *)
THEOREM ServerIsSound == Spec => []ServerInv
  <1>1. Init => ServerInv
      BY InitInv
  <1>2. ServerInv /\ [Next]_vars => ServerInv'
      BY NextKeepsInv
  <1> QED
      BY <1>1, <1>2, PTL DEF Spec

-----------------------------------------------------------------------------
LEMMA WhatCutsOff ==
  ASSUME ServerInv, Next, NEW c \in Clients,
         stage[c] \notin {"idle", "writing"}, stage'[c] = "idle"
  PROVE  ctxDone \/ faults' # faults
  <1>1. ~(Start \/ Open \/ Listen \/ ServeReturns \/ CloseDatabase \/ Signal \/ Shutdown)
      BY DEF Start, Open, Listen, ServeReturns, CloseDatabase, Signal, Shutdown,
             requestVars
  <1>2. ASSUME NEW d \in Clients
        PROVE  ~(Arrive(d) \/ HandlerStep(d) \/ Query(d) \/ Written(d) \/ Leave(d))
      BY DEF Arrive, HandlerStep, Route, Query, Refuse, Result, Written, Leave,
             Answer, ServerInv, TypeOK
  <1>3. CASE Exit
      BY <1>3 DEF Exit, ServerInv, InProgress
  <1>4. CASE Kill
      BY <1>4, FaultsStayBounded DEF Kill, ServerInv, TypeOK
  <1> QED
      BY <1>1, <1>2, <1>3, <1>4 DEF Next, MainStep

(* A process that was not told to end, and that no fault ends, answers     *)
(* every request that it let in (serve.go:34-49).                          *)
THEOREM NoneCutOffWithoutSignal == Spec => CutOffOnlyBySignal
  <1>1. ServerInv /\ [Next]_vars
          => [\A c \in Clients :
                (stage[c] \notin {"idle", "writing"} /\ stage'[c] = "idle")
                   => ctxDone \/ faults' # faults]_vars
      BY WhatCutsOff
  <1> QED
      BY <1>1, ServerIsSound, PTL DEF Spec, CutOffOnlyBySignal

-----------------------------------------------------------------------------
LEMMA FailedIsFinite ==
  ASSUME NEW S \in SUBSET Clients
  PROVE  IsFiniteSet(S) /\ Cardinality(S) \in Nat
  BY ServerAssumption, FS_Subset, FS_CardinalityType DEF ServerAssumption

LEMMA NoMoreThanBefore ==
  ASSUME NEW S \in SUBSET Clients, NEW T \in SUBSET S, NEW n \in Nat,
         Cardinality(S) <= n
  PROVE  Cardinality(T) <= n
  BY FailedIsFinite, FS_Subset

LEMMA AtMostOneMore ==
  ASSUME NEW S \in SUBSET Clients, NEW c \in Clients, NEW T \in SUBSET (S \cup {c}),
         NEW n \in Nat, Cardinality(S) <= n
  PROVE  Cardinality(T) <= n + 1
  <1>1. IsFiniteSet(S \cup {c}) /\ Cardinality(S \cup {c}) <= Cardinality(S) + 1
      BY FailedIsFinite, FS_AddElement
  <1>2. IsFiniteSet(T) /\ Cardinality(T) <= Cardinality(S \cup {c})
      BY <1>1, FS_Subset
  <1> QED
      BY <1>1, <1>2, FailedIsFinite

LEMMA NextKeepsCause ==
  ASSUME ServerInv, ErrorsHaveCause, [Next]_vars
  PROVE  ErrorsHaveCause'
  <1> DEFINE Blameless == Failed \ gone
  <1>1. Blameless \in SUBSET Clients /\ faults \in Nat /\ faults' \in Nat
      BY NextKeepsInv, ServerAssumption DEF Failed, ServerInv, TypeOK, ServerAssumption
  <1>2. CASE Exit \/ Kill
    <2>1. Blameless' = {}
        BY <1>2 DEF Exit, Kill, Ends, Failed
    <2> QED
        BY <1>1, <2>1, FS_EmptySet DEF ErrorsHaveCause
  <1>3. CASE main = "closed" /\ ~(Exit \/ Kill)
    <2>1. main' = "closed"
        BY <1>3
        DEF Next, MainStep, Start, Open, Listen, ServeReturns, CloseDatabase, Signal,
            Shutdown, HandlerStep, Arrive, Route, Query, Refuse, Result, Written,
            Leave, vars, processVars
    <2> QED
        BY <2>1 DEF ErrorsHaveCause
  <1>4. CASE main # "closed" /\ ~(Exit \/ Kill)
    <2>1. Cardinality(Blameless) <= faults
        BY <1>4 DEF ErrorsHaveCause
    <2>2. ASSUME NEW c \in Clients, Result(c), faults' = faults + 1
          PROVE  ErrorsHaveCause'
      <3>1. Blameless' \in SUBSET (Blameless \cup {c})
          BY <2>2 DEF Result, Answer, Failed, ServerInv, TypeOK
      <3> QED
          BY <1>1, <2>1, <2>2, <3>1, AtMostOneMore DEF ErrorsHaveCause
    <2>3. ASSUME Blameless' \in SUBSET Blameless, faults' >= faults
          PROVE  ErrorsHaveCause'
      <3>1. Cardinality(Blameless') <= faults
          BY <1>1, <2>1, <2>3, NoMoreThanBefore
      <3>2. Cardinality(Blameless') \in Nat
          BY <1>1, <2>3, FailedIsFinite
      <3> QED
          BY <1>1, <2>3, <3>1, <3>2 DEF ErrorsHaveCause
    <2>4. CASE UNCHANGED vars
        BY <1>1, <2>3, <2>4 DEF vars, requestVars, Failed
    <2>5. CASE Start \/ Open \/ Listen \/ ServeReturns \/ CloseDatabase \/ Signal \/ Shutdown
      <3>1. stage' = stage /\ status' = status /\ gone' = gone
          BY <2>5
          DEF Start, Open, Listen, ServeReturns, CloseDatabase, Signal, Shutdown,
              requestVars
      <3>2. faults' >= faults
          BY <1>1, <2>5
          DEF Start, Open, Listen, ServeReturns, CloseDatabase, Signal, Shutdown, Fault
      <3> QED
          BY <2>3, <3>1, <3>2 DEF Failed
    <2>6. ASSUME NEW c \in Clients,
                 Arrive(c) \/ Route(c) \/ Query(c) \/ Refuse(c) \/ Written(c) \/ Leave(c)
          PROVE  ErrorsHaveCause'
      <3>1. faults' = faults
          BY <2>6 DEF Arrive, Route, Query, Refuse, Written, Leave
      <3>2. Blameless' \in SUBSET Blameless
        <4>1. CASE Route(c)
          <5>1. Direct(call[c]) # 500
              BY DEF Direct
          <5> QED
              BY <4>1, <5>1 DEF Route, Answer, Failed, ServerInv, TypeOK
        <4>2. CASE Refuse(c)
            BY <1>4, <4>2 DEF Refuse, Answer, Failed, ServerInv, TypeOK
        <4>3. CASE Arrive(c) \/ Query(c) \/ Written(c) \/ Leave(c)
            BY <4>3 DEF Arrive, Query, Written, Leave, Failed, ServerInv, TypeOK
        <4> QED
            BY <2>6, <4>1, <4>2, <4>3
      <3> QED
          BY <1>1, <2>3, <3>1, <3>2
    <2>7. ASSUME NEW c \in Clients, Result(c), faults' = faults
          PROVE  ErrorsHaveCause'
      <3>1. Blameless' \in SUBSET Blameless
          BY <1>1, <2>7 DEF Result, Answer, Fault, Failed, ServerInv, TypeOK
      <3> QED
          BY <1>1, <2>3, <2>7, <3>1
    <2>8. ASSUME NEW c \in Clients, Result(c)
          PROVE  faults' \in {faults, faults + 1}
        BY <2>8 DEF Result, Fault
    <2> QED
        BY <1>4, <2>2, <2>4, <2>5, <2>6, <2>7, <2>8 DEF Next, MainStep, HandlerStep
  <1> QED
      BY <1>2, <1>3, <1>4

(* Whatever the order of requests, failures and departures: a client that  *)
(* stays is told of a server error only by a failed statement, one for     *)
(* each, or by a database that is being closed (handlers.go, response.go). *)
THEOREM EveryErrorHasACause == Spec => []ErrorsHaveCause
  <1>1. Init => ErrorsHaveCause
    <2>1. Init => Failed \ gone = {}
        BY DEF Init, Failed
    <2> QED
        BY <2>1, FS_EmptySet DEF Init, ErrorsHaveCause
  <1>2. ServerInv /\ ErrorsHaveCause /\ [Next]_vars => ErrorsHaveCause'
      BY NextKeepsCause
  <1> QED
      BY <1>1, <1>2, ServerIsSound, PTL DEF Spec

-----------------------------------------------------------------------------
(***************************************************************************)
(* The settings.                                                           *)
(***************************************************************************)
\* The function that LoadDotEnv defines, for the first n lines.
Reads(after, environment, lines, n) ==
    after = [i \in 0..n |->
                IF i = 0 THEN environment ELSE ReadLine(after[i - 1], lines[i])]

LEMMA LoadDotEnvReads ==
  ASSUME NEW environment, NEW lines
  PROVE  LoadDotEnv(environment, lines)
           = (CHOOSE after : Reads(after, environment, lines, Len(lines)))[Len(lines)]
  BY DEF LoadDotEnv, Reads

LEMMA LinesCanBeRead ==
  ASSUME NEW environment, NEW lines, NEW n \in Nat
  PROVE  \E after : Reads(after, environment, lines, n)
  <1> DEFINE D == {m \in 0..n : ~\E after : Reads(after, environment, lines, m)}
  <1>1. SUFFICES ASSUME D # {} PROVE FALSE
      OBVIOUS
  <1>2. PICK m \in D : \A k \in D : m <= k
    <2>1. D \in SUBSET (0..n)
        OBVIOUS
    <2> HIDE DEF D
    <2> QED
        BY <1>1, <2>1, LeastNumber
  <1>3. m # 0
    <2>1. Reads([i \in 0..0 |-> environment], environment, lines, 0)
        BY DEF Reads
    <2> QED
        BY <1>2, <2>1
  <1>4. m - 1 \in 0..n /\ m \in 0..n /\ m - 1 \notin D
      BY <1>2, <1>3
  <1>5. PICK before : Reads(before, environment, lines, m - 1)
      BY <1>4
  <1> DEFINE after == [i \in 0..m |-> IF i = m THEN ReadLine(before[m - 1], lines[m])
                                               ELSE before[i]]
  <1>6. ASSUME NEW i \in 0..m
        PROVE  after[i] = IF i = 0 THEN environment ELSE ReadLine(after[i - 1], lines[i])
    <2>1. CASE i = m
      <3>1. after[i - 1] = before[m - 1] /\ i # 0
          BY <1>3, <1>4, <2>1
      <3> QED
          BY <2>1, <3>1
    <2>2. CASE i # m
      <3>1. i \in 0..(m - 1) /\ after[i] = before[i]
          BY <1>4, <2>2
      <3>2. before[i] = IF i = 0 THEN environment ELSE ReadLine(before[i - 1], lines[i])
          BY <1>5, <3>1 DEF Reads
      <3>3. i # 0 => after[i - 1] = before[i - 1]
          BY <1>4, <3>1
      <3> QED
          BY <3>1, <3>2, <3>3
    <2> QED
        BY <2>1, <2>2
  <1>7. Reads(after, environment, lines, m)
    <2>1. after = [i \in 0..m |-> after[i]]
        OBVIOUS
    <2> HIDE DEF after
    <2> QED
        BY <1>6, <2>1 DEF Reads
  <1> QED
      BY <1>2, <1>7

\* after[i] is the environment once i lines have been read.
InTurn(after, environment, lines, n) ==
    /\ after[0] = environment
    /\ \A i \in 1..n : after[i] = ReadLine(after[i - 1], lines[i])
    /\ LoadDotEnv(environment, lines) = after[n]

LEMMA LinesAreRead ==
  ASSUME NEW environment, NEW lines, NEW n \in Nat, n = Len(lines)
  PROVE  \E after : InTurn(after, environment, lines, n)
  <1> DEFINE after == CHOOSE after : Reads(after, environment, lines, n)
  <1>1. Reads(after, environment, lines, n)
      BY LinesCanBeRead
  <1>2. LoadDotEnv(environment, lines) = after[n]
      BY LoadDotEnvReads
  <1> HIDE DEF after
  <1>3. \A i \in 0..n :
            after[i] = IF i = 0 THEN environment ELSE ReadLine(after[i - 1], lines[i])
      BY <1>1 DEF Reads
  <1>4. after[0] = environment
      BY <1>3
  <1>5. \A i \in 1..n : after[i] = ReadLine(after[i - 1], lines[i])
      BY <1>3
  <1>6. InTurn(after, environment, lines, n)
      BY <1>2, <1>4, <1>5 DEF InTurn
  <1> QED
      BY <1>6

\* The k-th of i lines is the first that sets the key.
IsFirst(k, lines, key, i) ==
    lines[k].key = key /\ \A j \in 1..i : lines[j].key = key => k <= j

\* What is known of one key when the first i lines have been read.
KnownAfter(known, environment, lines, key, i) ==
    /\ key \in DOMAIN known
         <=> key \in DOMAIN environment \/ \E k \in 1..i : lines[k].key = key
    /\ key \in DOMAIN environment => known[key] = environment[key]
    /\ \A k \in 1..i :
          IsFirst(k, lines, key, i) /\ key \notin DOMAIN environment
              => known[key] = lines[k].value

LEMMA LineKeepsKnown ==
  ASSUME NEW known, NEW environment, NEW lines, NEW key, key # NoSetting.key, NEW i \in Nat \ {0},
         KnownAfter(known, environment, lines, key, i - 1)
  PROVE  KnownAfter(ReadLine(known, lines[i]), environment, lines, key, i)
  <1> DEFINE next == ReadLine(known, lines[i])
  <1>1. 1..i = 1..(i - 1) \cup {i} /\ i \notin 1..(i - 1)
      OBVIOUS
  <1>2. CASE lines[i].key # key \/ key \in DOMAIN known
    <2>1. /\ key \in DOMAIN next <=> key \in DOMAIN known
          /\ key \in DOMAIN known => next[key] = known[key]
        BY <1>2 DEF ReadLine, Extend
    <2>2. key \in DOMAIN next
            <=> key \in DOMAIN environment \/ \E k \in 1..i : lines[k].key = key
        BY <1>1, <1>2, <2>1 DEF KnownAfter
    <2>3. key \in DOMAIN environment => next[key] = environment[key]
        BY <2>1 DEF KnownAfter
    <2>4. ASSUME NEW k \in 1..i, IsFirst(k, lines, key, i), key \notin DOMAIN environment
          PROVE  next[key] = lines[k].value
      <3>1. k \in 1..(i - 1)
        <4>1. CASE k = i
          <5>1. key \in DOMAIN known
              BY <1>2, <2>4, <4>1 DEF IsFirst
          <5>2. PICK j \in 1..(i - 1) : lines[j].key = key
              BY <2>4, <5>1 DEF KnownAfter
          <5>3. j \in 1..i /\ ~(i <= j)
              BY <5>2
          <5> QED
              BY <2>4, <4>1, <5>2, <5>3 DEF IsFirst
        <4> QED
            BY <1>1, <4>1
      <3>2. IsFirst(k, lines, key, i - 1)
          BY <1>1, <2>4 DEF IsFirst
      <3>3. known[key] = lines[k].value /\ key \in DOMAIN known
        <4>1. key \in DOMAIN known
            BY <2>4, <3>1 DEF KnownAfter, IsFirst
        <4> QED
            BY <2>4, <3>1, <3>2, <4>1 DEF KnownAfter
      <3> QED
          BY <2>1, <3>3
    <2> HIDE DEF next
    <2>5. KnownAfter(next, environment, lines, key, i)
        BY <2>2, <2>3, <2>4 DEF KnownAfter
    <2> QED
        BY <2>5 DEF next
  <1>3. CASE lines[i].key = key /\ key \notin DOMAIN known
    <2>1. lines[i].key # NoSetting.key
        BY <1>3
    <2>2. next = Extend(known, key, lines[i].value)
        BY <1>3, <2>1 DEF ReadLine
    <2>3. key \in DOMAIN next /\ next[key] = lines[i].value
        BY <2>2 DEF Extend
    <2>4. key \notin DOMAIN environment /\ \A k \in 1..(i - 1) : lines[k].key # key
        BY <1>3 DEF KnownAfter
    <2> HIDE DEF next
    <2>5. \A k \in 1..i : lines[k].key = key => k = i
        BY <1>1, <2>4
    <2>6. key \in DOMAIN next
            <=> key \in DOMAIN environment \/ \E k \in 1..i : lines[k].key = key
        BY <1>1, <1>3, <2>3
    <2>7. \A k \in 1..i : IsFirst(k, lines, key, i) => next[key] = lines[k].value
        BY <2>3, <2>5 DEF IsFirst
    <2>8. KnownAfter(next, environment, lines, key, i)
        BY <2>4, <2>6, <2>7 DEF KnownAfter
    <2> QED
        BY <2>8 DEF next
  <1> QED
      BY <1>2, <1>3

LEMMA KnownInTheEnd ==
  ASSUME NEW environment, NEW lines, NEW n \in Nat, n = Len(lines), NEW key, key # NoSetting.key
  PROVE  KnownAfter(LoadDotEnv(environment, lines), environment, lines, key, n)
  <1>1. PICK after : InTurn(after, environment, lines, n)
      BY LinesAreRead
  <1> DEFINE D == {i \in 0..n : ~KnownAfter(after[i], environment, lines, key, i)}
  <1>2. D = {}
    <2>1. SUFFICES ASSUME D # {} PROVE FALSE
        OBVIOUS
    <2>2. PICK i \in D : \A k \in D : i <= k
      <3>1. D \in SUBSET (0..n)
          OBVIOUS
      <3> HIDE DEF D
      <3> QED
          BY <2>1, <3>1, LeastNumber
    <2>3. i # 0
        BY <1>1, <2>2 DEF InTurn, KnownAfter
    <2>4. i \in Nat \ {0} /\ i \in 1..n /\ i - 1 \in 0..n /\ i - 1 \notin D
        BY <2>2, <2>3
    <2>5. KnownAfter(after[i - 1], environment, lines, key, i - 1)
        BY <2>4
    <2>6. KnownAfter(ReadLine(after[i - 1], lines[i]), environment, lines, key, i)
        BY <2>4, <2>5, LineKeepsKnown
    <2> QED
        BY <1>1, <2>2, <2>4, <2>6 DEF InTurn
  <1>3. KnownAfter(after[n], environment, lines, key, n)
      BY <1>2
  <1> QED
      BY <1>1, <1>3 DEF InTurn

(* The environment, then the first line of the key, then the default.      *)
LEMMA EnvIsEffective ==
  ASSUME NEW found \in [environment: Environments, lines: Files], NEW key, key # NoSetting.key
  PROVE  Env(LoadDotEnv(found.environment, found.lines), key) = Effective(found, key)
  <1> DEFINE n     == Len(found.lines)
             known == LoadDotEnv(found.environment, found.lines)
             lines == {i \in DOMAIN found.lines : found.lines[i].key = key}
  <1>1. n \in Nat /\ DOMAIN found.lines = 1..n
    <2>1. found.lines \in Seq({found.lines[i] : i \in DOMAIN found.lines})
        BY ServerAssumption DEF ServerAssumption
    <2> QED
        BY <2>1
  <1>2. KnownAfter(known, found.environment, found.lines, key, n)
      BY <1>1, KnownInTheEnd
  <1> SUFFICES Env(known, key) = Effective(found, key)
      OBVIOUS
  <1> HIDE DEF n, known
  <1>3. CASE key \in DOMAIN found.environment
    <2>1. key \in DOMAIN known /\ known[key] = found.environment[key]
        BY <1>2, <1>3 DEF KnownAfter
    <2>2. Given(found, key) = found.environment[key]
        BY <1>3 DEF Given
    <2> QED
        BY <2>1, <2>2 DEF Env, Effective
  <1>4. CASE key \notin DOMAIN found.environment /\ lines = {}
    <2>1. key \notin DOMAIN known
        BY <1>1, <1>2, <1>4 DEF KnownAfter
    <2>2. Given(found, key) = Empty
        BY <1>4 DEF Given
    <2> QED
        BY <2>1, <2>2 DEF Env, Effective
  <1>5. CASE key \notin DOMAIN found.environment /\ lines # {}
    <2>1. \E k \in lines : \A j \in lines : k <= j
      <3>1. lines \in SUBSET (0..n)
          BY <1>1
      <3> HIDE DEF lines
      <3> QED
          BY <1>1, <1>5, <3>1, LeastNumber
    <2> DEFINE k == CHOOSE k \in lines : \A j \in lines : k <= j
    <2>2. k \in lines /\ \A j \in lines : k <= j
        BY <2>1
    <2>3. Given(found, key) = found.lines[k].value
        BY <1>5 DEF Given
    <2> HIDE DEF k
    <2>4. k \in 1..n /\ IsFirst(k, found.lines, key, n)
        BY <1>1, <2>2 DEF IsFirst
    <2>5. key \in DOMAIN known /\ known[key] = found.lines[k].value
        BY <1>2, <1>5, <2>4 DEF KnownAfter, IsFirst
    <2> QED
        BY <2>3, <2>5 DEF Env, Effective
  <1> QED
      BY <1>3, <1>4, <1>5

-----------------------------------------------------------------------------
\* What an answer says of its origin, by the settings the process has read.
AllowedByConfig ==
    \A c \in Clients :
        /\ stage[c] \in {"idle", "routing"} => c \notin allow
        /\ stage[c] \in {"waiting", "querying", "writing"} =>
              (c \in allow <=> call[c].origin \in config.origins)

LEMMA NextKeepsAllowed ==
  ASSUME ServerInv, AllowedByConfig, [Next]_vars
  PROVE  AllowedByConfig'
  <1> USE DEF AllowedByConfig
  <1>1. CASE Exit \/ Kill
      BY <1>1 DEF Exit, Kill, Ends
  <1>2. CASE Start
    <2>1. \A c \in Clients : stage[c] = "idle"
        BY <1>2 DEF Start, ServerInv, InProgress
    <2>2. stage' = stage /\ allow' = allow
        BY <1>2 DEF Start, requestVars
    <2> QED
        BY <2>1, <2>2
  <1>3. CASE Open \/ Listen \/ ServeReturns \/ CloseDatabase \/ Signal \/ Shutdown \/ UNCHANGED vars
    <2>1. stage' = stage /\ allow' = allow /\ call' = call /\ config' = config
        BY <1>3
        DEF Open, Listen, ServeReturns, CloseDatabase, Signal, Shutdown, Goto, vars,
            requestVars, processVars
    <2> QED
        BY <2>1
  <1>4. ASSUME NEW c \in Clients,
               Arrive(c) \/ HandlerStep(c) \/ Query(c) \/ Written(c) \/ Leave(c)
        PROVE  AllowedByConfig'
    <2>1. config' = config
        BY <1>4 DEF Arrive, HandlerStep, Route, Query, Refuse, Result, Written, Leave, processVars
    <2>2. stage \in [Clients -> Stages] /\ call \in [Clients -> Sends]
        BY DEF ServerInv, TypeOK
    <2>3. CASE Arrive(c)
        BY <2>1, <2>2, <2>3 DEF Arrive
    <2>4. CASE Route(c)
        BY <2>1, <2>2, <2>4 DEF Route, Answer
    <2>5. CASE Query(c)
        BY <2>1, <2>2, <2>5 DEF Query
    <2>6. CASE Refuse(c) \/ Result(c)
        BY <2>1, <2>2, <2>6 DEF Refuse, Result, Answer
    <2>7. CASE Written(c)
        BY <2>1, <2>2, <2>7 DEF Written
    <2>8. CASE Leave(c)
        BY <2>1, <2>2, <2>8 DEF Leave
    <2> QED
        BY <1>4, <2>3, <2>4, <2>5, <2>6, <2>7, <2>8 DEF HandlerStep
  <1> QED
      BY <1>1, <1>2, <1>3, <1>4 DEF Next, MainStep

LEMMA ConfigIsEffective ==
  ASSUME ServerInv
  PROVE  \A origin : origin \in config.origins
            <=> /\ origin # Blank
                /\ \E i \in DOMAIN Effective(setup, CORSAllowedOrigins) :
                      Trimmed[Effective(setup, CORSAllowedOrigins)[i]] = origin
  <1>1. CORSAllowedOrigins # NoSetting.key
      BY DEF CORSAllowedOrigins, NoSetting
  <1>2. setup \in [environment: Environments, lines: Files] /\ config = LoadSetup(setup)
      BY DEF ServerInv, TypeOK
  <1>3. Env(LoadDotEnv(setup.environment, setup.lines), CORSAllowedOrigins)
          = Effective(setup, CORSAllowedOrigins)
      BY <1>1, <1>2, EnvIsEffective
  <1>4. config.origins = Parts(Effective(setup, CORSAllowedOrigins))
      BY <1>2, <1>3 DEF LoadSetup, Load
  <1> QED
      BY <1>4 DEF Parts

(* In whatever environment and next to whatever file a process starts, and *)
(* however often: until its end, an answer has the CORS headers exactly    *)
(* for the origins that its environment, else the first line of .env, else *)
(* the default allows (config.go, cors.go).                                *)
THEOREM CorsIsAsSet == Spec => []CorsFollowsSettings
  <1>1. Init => AllowedByConfig
      BY DEF Init, AllowedByConfig
  <1>2. ServerInv /\ AllowedByConfig /\ [Next]_vars => AllowedByConfig'
      BY NextKeepsAllowed
  <1>3. ServerInv /\ AllowedByConfig => CorsFollowsSettings
      BY ConfigIsEffective DEF AllowedByConfig, CorsFollowsSettings
  <1> QED
      BY <1>1, <1>2, <1>3, ServerIsSound, PTL DEF Spec
=============================================================================
