-------------------------- MODULE MigrationsProofs --------------------------
(***************************************************************************)
(* Every command runs on the whole schema, whatever the migrations and     *)
(* however many processes start, fail and are killed together.             *)
(***************************************************************************)
EXTENDS Migrations, FiniteSetTheorems, TLAPS

USE MigrationsAssumption

LEMMA NamesAreNumbered ==
    Len(Names) \in Nat /\ DOMAIN Names = 1..Len(Names)
OBVIOUS

LEMMA InitInv == Init => MigrationsInv
BY DEF Init, MigrationsInv, TypeOK, Locations, RecordedIsThere, PassedIsThere

\* Nothing is dropped, so what is there stays there.
LEMMA SchemaGrows ==
    ASSUME TypeOK, [Next]_vars
    PROVE  schema \subseteq schema'
BY DEF Next, MigrateStep, Start, Open, HasRun, Run, Record, Finish, End, Fail, vars

LEMMA TypeStep ==
    ASSUME TypeOK, PassedIsThere, [Next]_vars
    PROVE  TypeOK'
<1> USE NamesAreNumbered DEF TypeOK, Locations
<1>1. ASSUME NEW p \in Processes, Start(p) \/ Open(p) \/ Finish(p) \/ End(p) \/ Fail(p)
      PROVE  TypeOK'
    <2>1. UNCHANGED <<schema, recorded, statement>>
        BY <1>1 DEF Start, Open, Finish, End, Fail
    <2>2. pc' \in [Processes -> Locations]
        BY <1>1 DEF Start, Open, Finish, End, Fail
    <2>3. file' \in [Processes -> 1..(Len(Names) + 1)]
        <3>1. file \in [Processes -> 1..(Len(Names) + 1)]
            OBVIOUS
        <3>2. file' = file \/ file' = [file EXCEPT ![p] = 1]
            BY <1>1 DEF Start, Open, Finish, End, Fail
        <3>3. 1 \in 1..(Len(Names) + 1)
            OBVIOUS
        <3> HIDE DEF TypeOK
        <3> QED
            BY <3>1, <3>2, <3>3
    <2>4. faults' \in 0..MaxFaults
        BY <1>1 DEF Start, Open, Finish, End, Fail
    <2> QED
        BY <2>1, <2>2, <2>3, <2>4
<1>2. ASSUME NEW p \in Processes, HasRun(p)
      PROVE  TypeOK'
    <2>1. file[p] \in 1..Len(Names) /\ file[p] + 1 \in 1..(Len(Names) + 1)
        BY <1>2 DEF HasRun
    <2>2. file' \in [Processes -> 1..(Len(Names) + 1)]
        BY <1>2, <2>1 DEF HasRun
    <2>3. UNCHANGED <<schema, recorded, faults>>
        BY <1>2 DEF HasRun
    <2>4. pc' \in [Processes -> Locations]
        BY <1>2 DEF HasRun
    <2>5. statement' \in [Processes -> Nat \ {0}]
        BY <1>2 DEF HasRun
    <2> QED
        BY <2>2, <2>3, <2>4, <2>5
<1>3. ASSUME NEW p \in Processes, Run(p)
      PROVE  TypeOK'
    <2>1. pc[p] = "run" /\ file[p] \in DOMAIN Names
        BY <1>3 DEF Run, PassedIsThere
    <2>2. Statements(p)[statement[p]] \in Objects
        BY <1>3, <2>1 DEF Run, Statements
    <2> QED
        BY <1>3, <2>2 DEF Run
<1>4. ASSUME NEW p \in Processes, Record(p)
      PROVE  TypeOK'
    <2>1. file[p] \in DOMAIN Names
        BY <1>4 DEF Record, PassedIsThere
    <2>2. file' \in [Processes -> 1..(Len(Names) + 1)]
        BY <1>4, <2>1 DEF Record
    <2>3. recorded' \in [DOMAIN Names -> Nat]
        BY <1>4, <2>1 DEF Record
    <2>4. UNCHANGED <<schema, statement, faults>> /\ pc' \in [Processes -> Locations]
        BY <1>4 DEF Record
    <2> QED
        BY <2>2, <2>3, <2>4
<1>5. CASE UNCHANGED vars
    BY <1>5 DEF vars
<1> QED
    BY <1>1, <1>2, <1>3, <1>4, <1>5 DEF Next, MigrateStep

\* When a process has executed a file to its end, the file is there.
LEMMA FileIsExecuted ==
    ASSUME TypeOK, PassedIsThere, NEW p \in Processes, Record(p)
    PROVE  file[p] \in DOMAIN Names /\ IsThere(file[p])
<1>1. /\ file[p] \in DOMAIN Names
      /\ \A n \in DOMAIN Statements(p) : n < statement[p] => Statements(p)[n] \in schema
    BY DEF Record, PassedIsThere
<1>2. Creates[file[p]] \in Seq(Objects)
    BY <1>1
<1>3. \A n \in DOMAIN Statements(p) : n < statement[p]
    BY <1>2 DEF Record, Statements, TypeOK
<1> QED
    BY <1>1, <1>3 DEF IsThere, Statements

LEMMA RecordedStep ==
    ASSUME TypeOK, RecordedIsThere, PassedIsThere, [Next]_vars
    PROVE  RecordedIsThere'
<1>1. \A i \in DOMAIN Names : IsThere(i) => IsThere(i)'
    BY SchemaGrows DEF IsThere
<1>2. ASSUME NEW p \in Processes, Record(p)
      PROVE  RecordedIsThere'
    BY <1>1, <1>2, FileIsExecuted DEF Record, RecordedIsThere, TypeOK
<1>3. CASE UNCHANGED recorded
    BY <1>1, <1>3 DEF RecordedIsThere
<1> QED
    BY <1>2, <1>3 DEF Next, MigrateStep, Start, Open, HasRun, Run, Finish, End, Fail, vars

Passed(p) ==
    pc[p] \in {"check", "run", "ready"} =>
        /\ \A i \in DOMAIN Names : i < file[p] => IsThere(i)
        /\ pc[p] = "run" =>
              /\ file[p] \in DOMAIN Names
              /\ \A n \in DOMAIN Statements(p) :
                    n < statement[p] => Statements(p)[n] \in schema
        /\ pc[p] = "ready" => file[p] \notin DOMAIN Names

LEMMA PassedStep ==
    ASSUME TypeOK, RecordedIsThere, PassedIsThere, [Next]_vars
    PROVE  PassedIsThere'
<1> USE DEF TypeOK
<1>1. schema \subseteq schema' /\ \A i \in DOMAIN Names : IsThere(i) => IsThere(i)'
    BY SchemaGrows DEF IsThere
<1>2. \A p \in Processes : Passed(p)
    BY DEF PassedIsThere, Passed
<1>3. ASSUME NEW p \in Processes, UNCHANGED <<pc[p], file[p], statement[p]>>
      PROVE  Passed(p)'
    BY <1>1, <1>2, <1>3 DEF Passed, Statements
<1>4. ASSUME NEW p \in Processes,
             Start(p) \/ MigrateStep(p) \/ End(p) \/ Fail(p)
      PROVE  Passed(p)'
    <2>1. CASE Start(p) \/ End(p) \/ Fail(p)
        BY <2>1 DEF Start, End, Fail, Passed
    <2>2. CASE Open(p)
        BY <2>2 DEF Open, Passed
    <2>3. CASE HasRun(p)
        <3>1. CASE recorded[file[p]] > 0
            <4>1. /\ pc'[p] = "check" /\ file'[p] = file[p] + 1
                  /\ file[p] \in DOMAIN Names
                BY <2>3, <3>1 DEF HasRun
            <4>2. IsThere(file[p])
                BY <3>1, <4>1 DEF RecordedIsThere
            <4>3. \A i \in DOMAIN Names : i < file[p] => IsThere(i)
                BY <1>2, <2>3 DEF HasRun, Passed
            <4>4. \A i \in DOMAIN Names : i < file'[p] => IsThere(i)'
                BY <1>1, <4>1, <4>2, <4>3
            <4> QED
                BY <4>1, <4>4 DEF Passed
        <3>2. CASE recorded[file[p]] = 0
            BY <1>1, <1>2, <2>3, <3>2 DEF HasRun, Passed, Statements
        <3> QED
            BY <2>3, <3>1, <3>2 DEF HasRun
    <2>4. CASE Run(p)
        <3>1. /\ pc'[p] = "run" /\ pc[p] = "run" /\ file'[p] = file[p]
              /\ statement'[p] = statement[p] + 1
              /\ Statements(p)[statement[p]] \in schema'
            BY <2>4 DEF Run
        <3>2. /\ file[p] \in DOMAIN Names
              /\ \A i \in DOMAIN Names : i < file[p] => IsThere(i)
              /\ \A n \in DOMAIN Statements(p) :
                    n < statement[p] => Statements(p)[n] \in schema
            BY <1>2, <3>1 DEF Passed
        <3>3. \A n \in DOMAIN Statements(p) :
                 n < statement'[p] => Statements(p)[n] \in schema'
            <4>1. Creates[file[p]] \in Seq(Objects)
                BY <3>2
            <4> QED
                BY <1>1, <3>1, <3>2, <4>1 DEF Statements
        <3> QED
            BY <1>1, <3>1, <3>2, <3>3 DEF Passed, Statements
    <2>5. CASE Record(p)
        <3>1. pc'[p] = "check" /\ file'[p] = file[p] + 1 /\ pc[p] = "run"
            BY <2>5 DEF Record
        <3>2. \A i \in DOMAIN Names : i < file'[p] => IsThere(i)
            BY <1>2, <2>5, <3>1, FileIsExecuted DEF Passed
        <3> QED
            BY <1>1, <3>1, <3>2 DEF Passed
    <2>6. CASE Finish(p)
        BY <1>1, <1>2, <2>6 DEF Finish, Passed
    <2> QED
        BY <1>4, <2>1, <2>2, <2>3, <2>4, <2>5, <2>6 DEF MigrateStep
<1>5. ASSUME NEW p \in Processes, NEW q \in Processes \ {p},
             Start(p) \/ MigrateStep(p) \/ End(p) \/ Fail(p)
      PROVE  UNCHANGED <<pc[q], file[q], statement[q]>>
    BY <1>5 DEF MigrateStep, Start, Open, HasRun, Run, Record, Finish, End, Fail
<1>6. \A p \in Processes : Passed(p)'
    BY <1>3, <1>4, <1>5 DEF Next, vars
<1> QED
    BY <1>6 DEF PassedIsThere, Passed

(* The types, and that a recorded migration and one that a process has     *)
(* gone past are complete, in every state (database.go:50-98).             *)
THEOREM Migrated == Spec => []MigrationsInv
<1>1. MigrationsInv /\ [Next]_vars => MigrationsInv'
    BY TypeStep, RecordedStep, PassedStep DEF MigrationsInv
<1> QED
    BY <1>1, InitInv, PTL DEF Spec

(* A command never runs without a table or an index that it needs, however *)
(* many processes migrate the file together and wherever they are killed   *)
(* (app.go:54, database.go:50-98).                                         *)
THEOREM ReadyOnTheSchema == Spec => []ReadySeesSchema
<1>1. MigrationsInv => ReadySeesSchema
    BY DEF MigrationsInv, TypeOK, PassedIsThere, ReadySeesSchema
<1> QED
    BY <1>1, Migrated, PTL

-----------------------------------------------------------------------------
(***************************************************************************)
(* How often a migration is recorded.  A process that executes it will     *)
(* record it once more; none begins to when it is recorded.                *)
(***************************************************************************)
Running(i) == {p \in Processes : pc[p] = "run" /\ file[p] = i}

Bounded(i) == recorded[i] + Cardinality(Running(i)) <= Cardinality(Processes)

BoundInv == \A i \in DOMAIN Names : Bounded(i)

LEMMA RunningIsFinite ==
    ASSUME NEW i
    PROVE  /\ IsFiniteSet(Running(i)) /\ Cardinality(Running(i)) \in Nat
           /\ Cardinality(Processes) \in Nat
           /\ Cardinality(Running(i)) <= Cardinality(Processes)
<1>1. Running(i) \subseteq Processes
    BY DEF Running
<1> QED
    BY <1>1, FS_Subset, FS_CardinalityType

\* Fewer processes execute it, or those that begin are the first to.
LEMMA BoundKept ==
    ASSUME MigrationsInv, NEW i \in DOMAIN Names, Bounded(i), recorded'[i] = recorded[i],
           Running(i)' \subseteq Running(i) \/ recorded[i] = 0
    PROVE  Bounded(i)'
<1>1. recorded[i] \in Nat
    BY DEF MigrationsInv, TypeOK
<1>2. CASE Running(i)' \subseteq Running(i)
    <2>1. /\ Cardinality(Running(i)') <= Cardinality(Running(i))
          /\ Cardinality(Running(i)') \in Nat
        BY <1>2, RunningIsFinite, FS_Subset, FS_CardinalityType
    <2>2. Bounded(i)' <=> recorded'[i] + Cardinality(Running(i)') <= Cardinality(Processes)
        BY DEF Bounded, Running
    <2> QED
        BY <1>1, <2>1, <2>2, RunningIsFinite DEF Bounded
<1>3. CASE recorded[i] = 0
    <2>1. Running(i)' \subseteq Processes
        BY DEF Running
    <2>2. /\ Cardinality(Running(i)') <= Cardinality(Processes)
          /\ Cardinality(Running(i)') \in Nat
        BY <2>1, FS_Subset, FS_CardinalityType
    <2>3. Bounded(i)' <=> recorded'[i] + Cardinality(Running(i)') <= Cardinality(Processes)
        BY DEF Bounded, Running
    <2> QED
        BY <1>3, <2>2, <2>3, RunningIsFinite
<1> QED
    BY <1>2, <1>3

LEMMA BoundStep ==
    ASSUME MigrationsInv, [Next]_vars, NEW i \in DOMAIN Names, Bounded(i)
    PROVE  Bounded(i)'
<1> USE DEF MigrationsInv, TypeOK
<1>1. CASE UNCHANGED vars
    BY <1>1, BoundKept DEF vars, Running
<1>2. ASSUME NEW p \in Processes,
             Start(p) \/ Open(p) \/ Run(p) \/ Finish(p) \/ End(p) \/ Fail(p)
      PROVE  Bounded(i)'
    <2>1. Running(i)' \subseteq Running(i) /\ UNCHANGED recorded
        BY <1>2 DEF Start, Open, Run, Finish, End, Fail, Running
    <2> QED
        BY <2>1, BoundKept
<1>3. ASSUME NEW p \in Processes, HasRun(p)
      PROVE  Bounded(i)'
    <2>1. Running(i)' \subseteq Running(i) \/ recorded[i] = 0
        BY <1>3 DEF HasRun, Running
    <2> QED
        BY <1>3, <2>1, BoundKept DEF HasRun
<1>4. ASSUME NEW p \in Processes, Record(p)
      PROVE  Bounded(i)'
    <2>1. file[p] \in DOMAIN Names
        BY <1>4 DEF Record, PassedIsThere
    <2>2. Running(i)' = Running(i) \ {p}
        BY <1>4 DEF Record, Running
    <2>3. CASE i # file[p]
        BY <1>4, <2>1, <2>2, <2>3, BoundKept DEF Record
    <2>4. CASE i = file[p]
        <3>1. recorded'[i] = recorded[i] + 1 /\ recorded[i] \in Nat
            BY <1>4, <2>1, <2>4 DEF Record
        <3>2. p \in Running(i)
            BY <1>4, <2>4 DEF Record, Running
        <3>3. Cardinality(Running(i)') = Cardinality(Running(i)) - 1
            BY <2>2, <3>2, RunningIsFinite, FS_RemoveElement
        <3>4. Bounded(i)' <=> recorded'[i] + Cardinality(Running(i)') <= Cardinality(Processes)
            BY DEF Bounded, Running
        <3> QED
            BY <3>1, <3>3, <3>4, RunningIsFinite DEF Bounded
    <2> QED
        BY <2>3, <2>4
<1> QED
    BY <1>1, <1>2, <1>3, <1>4 DEF Next, MigrateStep

(* A migration has at most one row for each process, however often they    *)
(* are started again: the race between the check and the record cannot     *)
(* make the table grow (database.go:71-94).                                *)
THEOREM RecordedOnceEach == Spec => []RecordsAreBounded
<1>1. Init => BoundInv
    <2> SUFFICES ASSUME Init, NEW i \in DOMAIN Names PROVE Bounded(i)
        BY DEF BoundInv
    <2>1. recorded[i] = 0
        BY DEF Init
    <2> QED
        BY <2>1, RunningIsFinite DEF Bounded
<1>2. MigrationsInv /\ BoundInv /\ [Next]_vars => BoundInv'
    BY BoundStep DEF BoundInv
<1>3. MigrationsInv /\ BoundInv => RecordsAreBounded
    <2> SUFFICES ASSUME MigrationsInv, BoundInv, NEW i \in DOMAIN Names
                 PROVE  recorded[i] <= Cardinality(Processes)
        BY DEF RecordsAreBounded
    <2>1. recorded[i] \in Nat /\ Bounded(i)
        BY DEF MigrationsInv, TypeOK, BoundInv
    <2> QED
        BY <2>1, RunningIsFinite DEF Bounded
<1> QED
    BY <1>1, <1>2, <1>3, Migrated, PTL DEF Spec
=============================================================================
