------------------------------ MODULE Loading ------------------------------
(***************************************************************************)
(* stations:load and rides:load (console/load.go): every row of the feed   *)
(* or of the export is saved in turn, and a Save is an UPDATE followed, if *)
(* no row matched, by an INSERT (rides/repository.go, stations/            *)
(* repository.go).  The two statements are no transaction, so the loads of *)
(* other processes come between them.                                      *)
(*                                                                         *)
(* A loader is one run of one of the two commands.                         *)
(***************************************************************************)
EXTENDS Store, Sequences, FiniteSetsExt

CONSTANTS
    Loaders,
    Feeds,       \* what the GBFS feed may answer: sequences of station codes
    Exports,     \* the JSON exports: sequences of [ride, content]
    LoadsRides,  \* the loaders that run rides:load, the others stations:load
    MaxFaults    \* bound: statements that are interrupted

ExportRow == [ride: Rides, content: Content]

ASSUME LoadingAssumption ==
    /\ IsFiniteSet(Loaders)
    /\ Feeds \subseteq Seq(Codes)
    /\ Exports \subseteq Seq(ExportRow)
    /\ LoadsRides \subseteq Loaders
    /\ MaxFaults \in Nat

VARIABLES
    rows,     \* rows[p]: the fetched rows that p has not saved, first first
    saved,    \* saved[p]: the rows that it has
    phase,    \* where p is, see Phases
    created,  \* the counter the command prints
    since,    \* history, for the properties: since[p] are the other loads
              \* of p's table that were running when p began, or have
              \* begun since
    faults

loaderVars == <<rows, saved, phase, created, since, faults>>

vars == <<storeVars, loaderVars>>

Phases == {"fetch", "update", "insert", "done", "conflict", "failed"}

Running(p) == phase[p] \in {"update", "insert"}

Init ==
    /\ StoreInit
    /\ rows = [p \in Loaders |-> <<>>]
    /\ saved = [p \in Loaders |-> <<>>]
    /\ phase = [p \in Loaders |-> "fetch"]
    /\ created = [p \in Loaders |-> 0]
    /\ since = [p \in Loaders |-> {}]
    /\ faults = 0

SameTable(p, q) == p \in LoadsRides <=> q \in LoadsRides

Begins(p) ==
    since' = [q \in Loaders |->
                 IF q = p THEN {u \in Loaders : SameTable(u, p) /\ Running(u)}
                 ELSE IF SameTable(q, p) /\ phase[q] # "fetch" THEN since[q] \cup {p}
                 ELSE since[q]]

\* The input is read and decoded as a whole: an error ends the command
\* before a write.
Fetched(p, inputs) ==
    /\ phase[p] = "fetch"
    /\ \/ /\ \E fetched \in inputs : rows' = [rows EXCEPT ![p] = fetched]
          /\ phase' = [phase EXCEPT ![p] = "update"]
          /\ Begins(p)
       \/ phase' = [phase EXCEPT ![p] = "failed"] /\ UNCHANGED <<rows, since>>
    /\ UNCHANGED <<storeVars, saved, created, faults>>

FetchStations(p) == p \notin LoadsRides /\ Fetched(p, Feeds)

FetchRides(p) == p \in LoadsRides /\ Fetched(p, Exports)

Fetch(p) == FetchStations(p) \/ FetchRides(p)

Row(p) == Head(rows[p])

Exists(p) ==
    IF p \in LoadsRides THEN Row(p).ride \in Loaded ELSE Row(p) \in stations

\* Mutant of UpdateStatement: an existing row is left as it is.
KeepRow(p) == Exists(p) /\ UNCHANGED storeVars

\* Mutant of UpdateStatement: an UPDATE without WHERE.
UpdateAll(p) ==
    IF p \in LoadsRides
    THEN /\ Exists(p)
         /\ rides' = [r \in Rides |-> IF r \in Loaded THEN Row(p).content ELSE Absent]
         /\ UNCHANGED <<stations, distanceChecked, weatherChecked, routes, weather>>
    ELSE UpdateStation(Row(p))

UpdateStatement(p) ==
    IF p \in LoadsRides
    THEN UpdateRide(Row(p).ride, Row(p).content)
    ELSE UpdateStation(Row(p))

InsertStatement(p) ==
    IF p \in LoadsRides
    THEN InsertRide(Row(p).ride, Row(p).content)
    ELSE InsertStation(Row(p))

\* Mutant of NextRow: the loop stays where it is.
SameRow(p) == phase' = [phase EXCEPT ![p] = "update"] /\ UNCHANGED <<rows, saved>>

\* The loop goes on to the next row.
NextRow(p) ==
    /\ rows' = [rows EXCEPT ![p] = Tail(@)]
    /\ saved' = [saved EXCEPT ![p] = Append(@, Row(p))]
    /\ phase' = [phase EXCEPT ![p] = "update"]

\* Mutant of Update: the number of rows affected is not looked at.
UpdateThenInsert(p) ==
    /\ phase[p] = "update" /\ rows[p] # <<>>
    /\ phase' = [phase EXCEPT ![p] = "insert"]
    /\ UpdateStatement(p) \/ (~Exists(p) /\ UNCHANGED storeVars)
    /\ UNCHANGED <<rows, saved, created, since, faults>>

\* Mutant of Update: no row is inserted.
UpdateOnly(p) ==
    /\ phase[p] = "update" /\ rows[p] # <<>>
    /\ UpdateStatement(p) \/ (~Exists(p) /\ UNCHANGED storeVars)
    /\ NextRow(p)
    /\ UNCHANGED <<created, since, faults>>

Update(p) ==
    /\ phase[p] = "update" /\ rows[p] # <<>>
    /\ \/ UpdateStatement(p) /\ NextRow(p)
       \/ /\ ~Exists(p)
          /\ phase' = [phase EXCEPT ![p] = "insert"]
          /\ UNCHANGED <<storeVars, rows, saved>>
    /\ UNCHANGED <<created, since, faults>>

\* Mutant of Insert: INSERT OR IGNORE, counted as a new row.
InsertOrIgnore(p) ==
    /\ phase[p] = "insert"
    /\ InsertStatement(p) \/ (Exists(p) /\ UNCHANGED storeVars)
    /\ NextRow(p)
    /\ created' = [created EXCEPT ![p] = @ + 1]
    /\ UNCHANGED <<since, faults>>

\* A row that appeared since the UPDATE violates the primary key, which
\* ends the command.
Insert(p) ==
    /\ phase[p] = "insert"
    /\ \/ /\ InsertStatement(p)
          /\ NextRow(p)
          /\ created' = [created EXCEPT ![p] = @ + 1]
       \/ /\ Exists(p)
          /\ phase' = [phase EXCEPT ![p] = "conflict"]
          /\ UNCHANGED <<storeVars, rows, saved, created>>
    /\ UNCHANGED <<since, faults>>

Done(p) ==
    /\ phase[p] = "update" /\ rows[p] = <<>>
    /\ phase' = [phase EXCEPT ![p] = "done"]
    /\ UNCHANGED <<storeVars, rows, saved, created, since, faults>>

\* An error of the database, SIGTERM or SIGKILL ends the command; the
\* statement it was in may have been committed.
Interrupted(p) ==
    /\ Running(p) /\ rows[p] # <<>>
    /\ faults < MaxFaults
    /\ faults' = faults + 1
    /\ phase' = [phase EXCEPT ![p] = "failed"]
    /\ \/ UNCHANGED storeVars
       \/ phase[p] = "update" /\ UpdateStatement(p)
       \/ phase[p] = "insert" /\ InsertStatement(p)
    /\ UNCHANGED <<rows, saved, created, since>>

LoaderStep(p) == Fetch(p) \/ Update(p) \/ Insert(p) \/ Done(p)

Next == \E p \in Loaders : LoaderStep(p) \/ Interrupted(p)

Spec == Init /\ [][Next]_vars

FairSpec == Spec /\ \A p \in Loaders : WF_vars(LoaderStep(p))

-----------------------------------------------------------------------------
Entries == UNION {{file[i] : i \in DOMAIN file} : file \in Exports}

RowsOf(p) == IF p \in LoadsRides THEN Entries ELSE Codes

TypeOK ==
    /\ StoreTypeOK
    /\ rows \in [Loaders -> Seq(Codes \cup Entries)]
    /\ saved \in [Loaders -> Seq(Codes \cup Entries)]
    /\ \A p \in Loaders : rows[p] \in Seq(RowsOf(p)) /\ saved[p] \in Seq(RowsOf(p))
    /\ phase \in [Loaders -> Phases]
    /\ created \in [Loaders -> Nat]
    /\ since \in [Loaders -> SUBSET Loaders]
    /\ faults \in 0..MaxFaults

\* Before the fetch there are no rows, and before an INSERT there is one.
Placed ==
    \A p \in Loaders :
        /\ phase[p] = "fetch" => rows[p] = <<>> /\ saved[p] = <<>>
        /\ phase[p] = "insert" => rows[p] # <<>>

SavedRowsExist ==
    \A p \in Loaders : \A i \in DOMAIN saved[p] :
        IF p \in LoadsRides
        THEN saved[p][i].ride \in Loaded
        ELSE saved[p][i] \in stations

(* Nothing that a load has gone past is missing from the tables, whatever  *)
(* the other loads do (load.go:24-36, 66-76).                              *)
LoadingInv == TypeOK /\ Placed /\ SavedRowsExist

(* An export that is loaded while no other is, and that none has followed, *)
(* has the last word, whatever earlier loads left in the tables: the row   *)
(* of a ride is what the last saved entry says of it, also for a ride that *)
(* an export lists twice.  A load that was interrupted may have come one   *)
(* entry further (rides/repository.go:81-118, load.go:66-76).              *)
LastEntryWins ==
    \A p \in LoadsRides : since[p] = {} =>
        \A i \in DOMAIN saved[p] :
            LET r == saved[p][i].ride
            IN  \/ \E k \in DOMAIN saved[p] : k > i /\ saved[p][k].ride = r
                \/ rides[r] = saved[p][i].content
                \/ /\ phase[p] = "failed"
                   /\ Row(p).ride = r /\ rides[r] = Row(p).content

(* The commands count every row that they create once: together they have  *)
(* printed, or will, as many as the tables hold.  Only an INSERT that was  *)
(* committed and then cancelled is not counted (load.go:30-34, 72-76).     *)
CreatedAreRows ==
    LET rowsHeld == Cardinality(stations) + Cardinality(Loaded)
        counted  == MapThenSumSet(LAMBDA p : created[p], Loaders)
    IN  rowsHeld - counted \in 0..faults

(* No upsert ends in a primary key violation: rides:load "upserts it into  *)
(* the database" (README.md:109, rides/repository.go:103-113).             *)
NoConflict == \A p \in Loaders : phase[p] # "conflict"

Key(p, row) == IF p \in LoadsRides THEN row.ride ELSE row

\* q has put the row with this key into its table, or has lost the answer
\* to the statement that may have.
Wrote(q, key) ==
    \/ \E i \in DOMAIN saved[q] : Key(q, saved[q][i]) = key
    \/ phase[q] = "failed" /\ rows[q] # <<>> /\ Key(q, Row(q)) = key

(* Only a load of the same table that ran while this one did, and wrote    *)
(* the same row, can make an upsert fail: the rows of a load that ended    *)
(* before this one began are found by the UPDATE, and loads of different   *)
(* tables never meet (rides/repository.go:81-118,                          *)
(* stations/repository.go:60-93).                                          *)
ConflictsNeedOverlap ==
    \A p \in Loaders : phase[p] = "conflict" =>
        \E q \in since[p] : Wrote(q, Key(p, Row(p)))

\* What the exports say of each ride.
Export == [r \in Rides |-> {e.content : e \in {x \in Entries : x.ride = r}}]

(* All that the loads do to the tables is what RideChecks lets them do     *)
(* (console/load.go, with the two Saves).                                  *)
LoadSpec == StoreInit /\ [][LoadStatement(Export)]_storeVars

(* A load ends (load.go).                                                  *)
LoadsEnd == \A p \in Loaders : <>(~Running(p) /\ phase[p] # "fetch")
=============================================================================
