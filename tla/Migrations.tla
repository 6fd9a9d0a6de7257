----------------------------- MODULE Migrations -----------------------------
(***************************************************************************)
(* database.Migrate, which app.New calls in every process before its       *)
(* command runs: the API, the workers and the console commands of the      *)
(* compose file all start against the same SQLite file, at the same time.  *)
(*                                                                         *)
(* A migration is a file of statements CREATE ... IF NOT EXISTS.  Nothing  *)
(* is a transaction: a process reads whether a migration was recorded,     *)
(* executes its statements one by one and records it, while others do the  *)
(* same, fail or are killed anywhere.                                      *)
(***************************************************************************)
EXTENDS Naturals, Sequences, FiniteSets

CONSTANTS
    Processes,
    Objects,    \* the tables and indexes
    Names,      \* the files in migrations/, sorted by name
    Creates,    \* Creates[i]: what the i-th file creates, in its order
    MaxFaults   \* bound: processes that fail or are killed while migrating

ASSUME MigrationsAssumption ==
    /\ IsFiniteSet(Processes)
    /\ Names \in Seq(STRING)
    /\ Creates \in [DOMAIN Names -> Seq(Objects)]
    /\ MaxFaults \in Nat

VARIABLES
    schema,    \* the objects that are there
    recorded,  \* recorded[i]: the rows of the migrations table for the i-th file
    pc,        \* where each process is
    file,      \* file[p]: the turn of the loop that p is in
    statement, \* statement[p]: the statement of the file that p is at
    faults

vars == <<schema, recorded, pc, file, statement, faults>>

Locations == {"down", "open", "check", "run", "ready"}

Init ==
    /\ schema = {}
    /\ recorded = [i \in DOMAIN Names |-> 0]
    /\ pc = [p \in Processes |-> "down"]
    /\ file = [p \in Processes |-> 1]
    /\ statement = [p \in Processes |-> 1]
    /\ faults = 0

Start(p) ==
    /\ pc[p] = "down"
    /\ pc' = [pc EXCEPT ![p] = "open"]
    /\ UNCHANGED <<schema, recorded, file, statement, faults>>

\* CREATE TABLE IF NOT EXISTS migrations, and the start of the loop.  Every
\* later step of the process finds that table.
Open(p) ==
    /\ pc[p] = "open"
    /\ pc' = [pc EXCEPT ![p] = "check"]
    /\ file' = [file EXCEPT ![p] = 1]
    /\ UNCHANGED <<schema, recorded, statement, faults>>

\* Mutant of HasRun: a migration that is there is never skipped.
HasNotRun(p) ==
    /\ pc[p] = "check" /\ file[p] \in DOMAIN Names
    /\ pc' = [pc EXCEPT ![p] = "run"]
    /\ statement' = [statement EXCEPT ![p] = 1]
    /\ UNCHANGED <<schema, recorded, file, faults>>

\* Mutant of HasRun: the schema is taken to be up to date when it has begun.
AnyHasRun(p) ==
    /\ pc[p] = "check" /\ file[p] \in DOMAIN Names
    /\ IF schema # {}
       THEN file' = [file EXCEPT ![p] = @ + 1] /\ UNCHANGED <<pc, statement>>
       ELSE /\ pc' = [pc EXCEPT ![p] = "run"]
            /\ statement' = [statement EXCEPT ![p] = 1]
            /\ UNCHANGED file
    /\ UNCHANGED <<schema, recorded, faults>>

HasRun(p) ==
    /\ pc[p] = "check" /\ file[p] \in DOMAIN Names
    /\ \/ /\ recorded[file[p]] > 0
          /\ file' = [file EXCEPT ![p] = @ + 1]
          /\ UNCHANGED <<pc, statement>>
       \/ /\ recorded[file[p]] = 0
          /\ pc' = [pc EXCEPT ![p] = "run"]
          /\ statement' = [statement EXCEPT ![p] = 1]
          /\ UNCHANGED file
    /\ UNCHANGED <<schema, recorded, faults>>

Statements(p) == Creates[file[p]]

\* Mutant of Run: the file is executed again and again.
RunAgain(p) ==
    /\ pc[p] = "run" /\ statement[p] \in DOMAIN Statements(p)
    /\ schema' = schema \cup {Statements(p)[statement[p]]}
    /\ statement' = [statement EXCEPT ![p] = IF @ = 1 THEN 2 ELSE 1]
    /\ UNCHANGED <<recorded, pc, file, faults>>

Run(p) ==
    /\ pc[p] = "run" /\ statement[p] \in DOMAIN Statements(p)
    /\ schema' = schema \cup {Statements(p)[statement[p]]}
    /\ statement' = [statement EXCEPT ![p] = @ + 1]
    /\ UNCHANGED <<recorded, pc, file, faults>>

\* Mutant of Record: a file is recorded before it has been executed.
RecordEarly(p) ==
    /\ pc[p] = "run"
    /\ recorded' = [recorded EXCEPT ![file[p]] = @ + 1]
    /\ pc' = [pc EXCEPT ![p] = "check"]
    /\ file' = [file EXCEPT ![p] = @ + 1]
    /\ UNCHANGED <<schema, statement, faults>>

Record(p) ==
    /\ pc[p] = "run" /\ statement[p] \notin DOMAIN Statements(p)
    /\ recorded' = [recorded EXCEPT ![file[p]] = @ + 1]
    /\ pc' = [pc EXCEPT ![p] = "check"]
    /\ file' = [file EXCEPT ![p] = @ + 1]
    /\ UNCHANGED <<schema, statement, faults>>

\* Migrate returns nil and the command runs, until it ends.
Finish(p) ==
    /\ pc[p] = "check" /\ file[p] \notin DOMAIN Names
    /\ pc' = [pc EXCEPT ![p] = "ready"]
    /\ UNCHANGED <<schema, recorded, file, statement, faults>>

End(p) ==
    /\ pc[p] = "ready"
    /\ pc' = [pc EXCEPT ![p] = "down"]
    /\ UNCHANGED <<schema, recorded, file, statement, faults>>

\* A statement returns an error, which ends the process, or it is killed.
\* What it had committed by then stays.
Fail(p) ==
    /\ pc[p] \in {"open", "check", "run"}
    /\ faults < MaxFaults
    /\ faults' = faults + 1
    /\ pc' = [pc EXCEPT ![p] = "down"]
    /\ UNCHANGED <<schema, recorded, file, statement>>

MigrateStep(p) == Open(p) \/ HasRun(p) \/ Run(p) \/ Record(p) \/ Finish(p)

Next == \E p \in Processes : Start(p) \/ MigrateStep(p) \/ End(p) \/ Fail(p)

Spec == Init /\ [][Next]_vars

\* Migrate is straight-line code on a database with a busy timeout.
FairSpec == Spec /\ \A p \in Processes : WF_vars(MigrateStep(p))

-----------------------------------------------------------------------------
TypeOK ==
    /\ schema \subseteq Objects
    /\ recorded \in [DOMAIN Names -> Nat]
    /\ pc \in [Processes -> Locations]
    /\ file \in [Processes -> 1..(Len(Names) + 1)]
    /\ statement \in [Processes -> Nat \ {0}]
    /\ faults \in 0..MaxFaults

IsThere(i) == \A n \in DOMAIN Creates[i] : Creates[i][n] \in schema

(* A recorded migration is complete, also when its process was killed      *)
(* between two of its statements and another one went on: it is not        *)
(* skipped with a table missing (database.go:70-94).                       *)
RecordedIsThere == \A i \in DOMAIN Names : recorded[i] > 0 => IsThere(i)

(* A command only runs on the whole schema: "Every container migrates the  *)
(* database on start, so no manual setup is needed" (README.md:27), however *)
(* the containers race (app.go:54, database.go:50-98).                     *)
ReadySeesSchema ==
    \A p \in Processes : pc[p] = "ready" => \A i \in DOMAIN Names : IsThere(i)

(* The inductive invariant behind these two: what a process has gone past  *)
(* in the loop, and in the file it executes, is there.                     *)
PassedIsThere ==
    \A p \in Processes : pc[p] \in {"check", "run", "ready"} =>
        /\ \A i \in DOMAIN Names : i < file[p] => IsThere(i)
        /\ pc[p] = "run" =>
              /\ file[p] \in DOMAIN Names
              /\ \A n \in DOMAIN Statements(p) :
                    n < statement[p] => Statements(p)[n] \in schema
        /\ pc[p] = "ready" => file[p] \notin DOMAIN Names

MigrationsInv == TypeOK /\ RecordedIsThere /\ PassedIsThere

(* The race between the check and the record can record a migration twice, *)
(* but no process does so twice: the table does not grow with restarts     *)
(* (database.go:71-94, which has no unique index to rely on).              *)
RecordsAreBounded ==
    \A i \in DOMAIN Names : recorded[i] <= Cardinality(Processes)

(* Migrate returns (database.go:50-98).                                    *)
MigrateEnds == \A p \in Processes : pc[p] = "open" ~> pc[p] \in {"ready", "down"}
=============================================================================
