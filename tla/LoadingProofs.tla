---------------------------- MODULE LoadingProofs ---------------------------
(***************************************************************************)
(* Proofs about loads, for any number of them at once, any feeds, exports  *)
(* and interruptions.  The two statements of a Save have effects that the  *)
(* first lemmas state; the other proofs do not look into the tables again. *)
(***************************************************************************)
EXTENDS Loading, FiniteTheorems

-----------------------------------------------------------------------------
(***************************************************************************)
(* Sequences.                                                              *)
(***************************************************************************)
LEMMA HeadAndTail ==
  ASSUME NEW S, NEW s \in Seq(S), s # <<>>
  PROVE  Head(s) \in S /\ Tail(s) \in Seq(S)
  OBVIOUS

LEMMA Appended ==
  ASSUME NEW S, NEW s \in Seq(S), NEW e \in S
  PROVE  /\ Append(s, e) \in Seq(S)
         /\ Append(s, e) # <<>>
         /\ Len(s) \in Nat
         /\ DOMAIN s = 1..Len(s)
         /\ DOMAIN Append(s, e) = 1..(Len(s) + 1)
         /\ Append(s, e)[Len(s) + 1] = e
         /\ \A i \in 1..Len(s) : Append(s, e)[i] = s[i]
  OBVIOUS

-----------------------------------------------------------------------------
(***************************************************************************)
(* What a statement does to the tables.                                    *)
(***************************************************************************)
Saves(p) == UpdateStatement(p) \/ InsertStatement(p)

LEMMA EntriesAreRows == Entries \subseteq ExportRow
  <1> SUFFICES ASSUME NEW file \in Exports, NEW i \in DOMAIN file
               PROVE  file[i] \in ExportRow
      BY DEF Entries
  <1>1. file \in Seq(ExportRow)
      BY LoadingAssumption DEF LoadingAssumption
  <1> QED
      BY <1>1

LEMMA RowIsItsOwn ==
  ASSUME TypeOK, NEW p \in Loaders, rows[p] # <<>>
  PROVE  /\ Row(p) \in RowsOf(p)
         /\ p \in LoadsRides => Row(p) \in Entries /\ Row(p) \in ExportRow
         /\ p \notin LoadsRides => Row(p) \in Codes
         /\ Row(p) \in Codes \cup Entries
  BY EntriesAreRows, HeadAndTail DEF TypeOK, RowsOf, Row

LEMMA RideStatement ==
  ASSUME TypeOK, NEW p \in Loaders, p \in LoadsRides, rows[p] # <<>>, Saves(p)
  PROVE  /\ StoreTypeOK'
         /\ rides' = [rides EXCEPT ![Row(p).ride] = Row(p).content]
         /\ rides'[Row(p).ride] = Row(p).content
         /\ Loaded' = Loaded \cup {Row(p).ride}
         /\ stations' = stations
         /\ LoadStatement(Export)
  <1> DEFINE r == Row(p).ride
             content == Row(p).content
  <1>1. Row(p) \in Entries /\ r \in Rides /\ content \in Content
      BY RowIsItsOwn DEF ExportRow
  <1>2. UpdateRide(r, content) \/ InsertRide(r, content)
      BY DEF Saves, UpdateStatement, InsertStatement
  <1>3. content \in Export[r]
      BY <1>1 DEF Export
  <1>4. LoadStatement(Export)
      BY <1>1, <1>2, <1>3 DEF LoadStatement
  <1> HIDE DEF r, content
  <1>5. rides \in [Rides -> Content \cup {Absent}]
      BY DEF TypeOK, StoreTypeOK
  <1>6. rides' = [rides EXCEPT ![r] = content] /\ stations' = stations
      BY <1>2 DEF UpdateRide, InsertRide
  <1>7. rides'[r] = content
      BY <1>1, <1>5, <1>6
  <1>8. StoreTypeOK'
    <2>1. rides' \in [Rides -> Content \cup {Absent}]
        BY <1>1, <1>5, <1>6
    <2>2. /\ distanceChecked' \subseteq Rides /\ weatherChecked' \subseteq Rides
          /\ routes' = routes /\ weather' = weather
        BY <1>2 DEF UpdateRide, InsertRide, TypeOK, StoreTypeOK
    <2> QED
        BY <1>6, <2>1, <2>2 DEF TypeOK, StoreTypeOK
  <1>9. Loaded' = Loaded \cup {r}
    <2>1. content # Absent
        BY <1>1, StoreAssumption DEF StoreAssumption
    <2> QED
        BY <1>1, <1>5, <1>6, <2>1 DEF Loaded
  <1> QED
      BY <1>4, <1>6, <1>7, <1>8, <1>9 DEF r, content

LEMMA StationStatement ==
  ASSUME TypeOK, NEW p \in Loaders, p \notin LoadsRides, rows[p] # <<>>, Saves(p)
  PROVE  /\ StoreTypeOK'
         /\ stations' = stations \cup {Row(p)}
         /\ rides' = rides
         /\ Loaded' = Loaded
         /\ LoadStatement(Export) \/ UNCHANGED storeVars
  <1>1. Row(p) \in Codes
      BY RowIsItsOwn
  <1>2. CASE UpdateStation(Row(p))
    <2>1. /\ stations' = stations /\ rides' = rides /\ distanceChecked' = distanceChecked
          /\ weatherChecked' = weatherChecked /\ routes' = routes /\ weather' = weather
        BY <1>2 DEF UpdateStation, storeVars
    <2>2. Row(p) \in stations
        BY <1>2 DEF UpdateStation
    <2> QED
        BY <1>2, <2>1, <2>2 DEF UpdateStation, TypeOK, StoreTypeOK, Loaded
  <1>3. CASE InsertStation(Row(p))
    <2>1. LoadStatement(Export)
        BY <1>1, <1>3 DEF LoadStatement
    <2> QED
        BY <1>1, <1>3, <2>1 DEF InsertStation, TypeOK, StoreTypeOK, Loaded
  <1> QED
      BY <1>2, <1>3 DEF Saves, UpdateStatement, InsertStatement

(* Whoever saves, no row leaves the tables. *)
LEMMA TablesGrow ==
  ASSUME TypeOK, NEW p \in Loaders, rows[p] # <<>>, Saves(p) \/ UNCHANGED storeVars
  PROVE  /\ StoreTypeOK'
         /\ Loaded \subseteq Loaded' /\ stations \subseteq stations'
         /\ p \in LoadsRides => stations' = stations
         /\ p \notin LoadsRides => rides' = rides /\ Loaded' = Loaded
  <1>1. CASE UNCHANGED storeVars
      BY <1>1 DEF storeVars, TypeOK, StoreTypeOK, Loaded
  <1> QED
      BY <1>1, RideStatement, StationStatement

-----------------------------------------------------------------------------
(***************************************************************************)
(* What the steps have in common.                                          *)
(***************************************************************************)
LEMMA FetchShape ==
  ASSUME TypeOK, Placed, NEW p \in Loaders, Fetch(p)
  PROVE  /\ phase[p] = "fetch"
         /\ UNCHANGED storeVars /\ saved' = saved /\ created' = created /\ faults' = faults
         /\ \E next \in {"update", "failed"} : phase' = [phase EXCEPT ![p] = next]
         /\ \E fetched \in Seq(RowsOf(p)) : rows' = [rows EXCEPT ![p] = fetched]
  <1>1. rows[p] \in Seq(RowsOf(p)) /\ rows = [rows EXCEPT ![p] = rows[p]]
      BY DEF TypeOK
  <1>2. CASE FetchStations(p)
    <2>1. RowsOf(p) = Codes /\ Feeds \subseteq Seq(Codes)
        BY <1>2, LoadingAssumption DEF FetchStations, RowsOf, LoadingAssumption
    <2> QED
        BY <1>1, <1>2, <2>1 DEF FetchStations, Fetched
  <1>3. CASE FetchRides(p)
    <2>1. RowsOf(p) = Entries
        BY <1>3 DEF FetchRides, RowsOf
    <2>2. Exports \subseteq Seq(Entries)
      <3> SUFFICES ASSUME NEW file \in Exports
                   PROVE  file \in Seq(Entries)
          OBVIOUS
      <3>1. file \in Seq(ExportRow)
          BY LoadingAssumption DEF LoadingAssumption
      <3>2. \A i \in 1..Len(file) : file[i] \in Entries
          BY <3>1 DEF Entries
      <3> QED
          BY <3>1, <3>2
    <2> QED
        BY <1>1, <1>3, <2>1, <2>2 DEF FetchRides, Fetched
  <1> QED
      BY <1>2, <1>3 DEF Fetch

LEMMA FetchBegins ==
  ASSUME TypeOK, NEW p \in Loaders, Fetch(p)
  PROVE  /\ since' \in [Loaders -> SUBSET Loaders]
         /\ (phase'[p] = "update" /\ Begins(p)) \/ (phase'[p] = "failed" /\ since' = since)
  <1>1. Begins(p) => since' \in [Loaders -> SUBSET Loaders]
      BY DEF Begins, TypeOK
  <1> QED
      BY <1>1 DEF Fetch, FetchStations, FetchRides, Fetched, TypeOK

(* A row is done: it is saved, and the loop goes on. *)
Advance(p) ==
    /\ phase[p] \in {"update", "insert"} /\ rows[p] # <<>>
    /\ Saves(p) /\ NextRow(p)
    /\ faults' = faults /\ since' = since
    /\ created' = created \/ created' = [created EXCEPT ![p] = @ + 1]

(* Any other step of a loader that has fetched. *)
Turn(p) ==
    /\ phase[p] \in {"update", "insert"}
    /\ \E next \in {"insert", "conflict", "done", "failed"} :
          phase' = [phase EXCEPT ![p] = next]
    /\ UNCHANGED <<rows, saved, created, since>>
    /\ faults' \in 0..MaxFaults
    /\ \/ UNCHANGED storeVars
       \/ rows[p] # <<>> /\ Saves(p) /\ phase'[p] = "failed"
    /\ phase'[p] = "insert" => rows[p] # <<>> /\ ~Exists(p)
    /\ phase'[p] = "conflict" => phase[p] = "insert" /\ Exists(p)

LEMMA StepShape ==
  ASSUME TypeOK, Placed, NEW p \in Loaders, LoaderStep(p) \/ Interrupted(p)
  PROVE  Fetch(p) \/ Advance(p) \/ Turn(p)
  <1> USE DEF TypeOK
  <1>1. CASE Update(p)
      BY <1>1 DEF Update, Advance, Turn, Saves
  <1>2. CASE Insert(p)
      BY <1>2 DEF Insert, Advance, Turn, Saves, Placed
  <1>3. CASE Done(p)
      BY <1>3 DEF Done, Turn
  <1>4. CASE Interrupted(p)
    <2>1. faults' \in 0..MaxFaults
        BY <1>4, LoadingAssumption DEF Interrupted, LoadingAssumption
    <2> QED
        BY <1>4, <2>1 DEF Interrupted, Running, Turn, Saves
  <1> QED
      BY <1>1, <1>2, <1>3, <1>4 DEF LoaderStep

(* A step of p leaves the rows of the others. *)
LEMMA OthersStay ==
  ASSUME TypeOK, NEW p \in Loaders, NEW q \in Loaders, p # q,
         Fetch(p) \/ Advance(p) \/ Turn(p), Placed
  PROVE  phase'[q] = phase[q] /\ rows'[q] = rows[q] /\ saved'[q] = saved[q]
  <1>1. CASE Fetch(p)
    <2>1. PICK next \in {"update", "failed"} : phase' = [phase EXCEPT ![p] = next]
        BY <1>1, FetchShape
    <2>2. PICK fetched \in Seq(RowsOf(p)) : rows' = [rows EXCEPT ![p] = fetched]
        BY <1>1, FetchShape
    <2>3. saved' = saved
        BY <1>1, FetchShape
    <2> QED
        BY <2>1, <2>2, <2>3 DEF TypeOK
  <1>2. CASE Advance(p) \/ Turn(p)
      BY <1>2 DEF Advance, Turn, NextRow, TypeOK
  <1> QED
      BY <1>1, <1>2

-----------------------------------------------------------------------------
LEMMA InitLoading == Init => LoadingInv
  <1> SUFFICES ASSUME Init
               PROVE  LoadingInv
      OBVIOUS
  <1>1. StoreTypeOK
      BY DEF Init, StoreInit, StoreTypeOK
  <1>2. \A S : <<>> \in Seq(S)
      OBVIOUS
  <1>3. faults \in 0..MaxFaults
      BY LoadingAssumption DEF Init, LoadingAssumption
  <1>4. TypeOK
      BY <1>1, <1>2, <1>3 DEF Init, TypeOK, Phases
  <1> QED
      BY <1>4 DEF Init, LoadingInv, Placed, SavedRowsExist

LEMMA FetchKeepsInv ==
  ASSUME LoadingInv, NEW p \in Loaders, Fetch(p)
  PROVE  LoadingInv'
  <1> USE DEF LoadingInv
  <1>1. PICK next \in {"update", "failed"} : phase' = [phase EXCEPT ![p] = next]
      BY FetchShape
  <1>2. PICK fetched \in Seq(RowsOf(p)) : rows' = [rows EXCEPT ![p] = fetched]
      BY FetchShape
  <1>3. UNCHANGED storeVars /\ saved' = saved /\ created' = created /\ faults' = faults
      BY FetchShape
  <1>4. StoreTypeOK' /\ Loaded' = Loaded /\ stations' = stations
      BY <1>3 DEF TypeOK, StoreTypeOK, storeVars, Loaded
  <1>5. RowsOf(p) \subseteq Codes \cup Entries
      BY DEF RowsOf
  <1>6. fetched \in Seq(Codes \cup Entries)
      BY <1>5
  <1>7. TypeOK'
    <2>1. rows' \in [Loaders -> Seq(Codes \cup Entries)]
        BY <1>2, <1>6 DEF TypeOK
    <2>2. phase' \in [Loaders -> Phases]
        BY <1>1 DEF TypeOK, Phases
    <2>3. \A q \in Loaders : rows'[q] \in Seq(RowsOf(q))
        BY <1>2 DEF TypeOK
    <2>4. since' \in [Loaders -> SUBSET Loaders]
        BY FetchBegins
    <2> QED
        BY <1>3, <1>4, <2>1, <2>2, <2>3, <2>4 DEF TypeOK
  <1>8. Placed'
      BY <1>1, <1>2, <1>3 DEF TypeOK, Placed
  <1>9. SavedRowsExist'
      BY <1>3, <1>4 DEF SavedRowsExist
  <1> QED
      BY <1>7, <1>8, <1>9

LEMMA AdvanceKeepsInv ==
  ASSUME LoadingInv, NEW p \in Loaders, Advance(p)
  PROVE  LoadingInv'
  <1> USE DEF LoadingInv
  <1>1. /\ rows[p] # <<>> /\ Saves(p)
        /\ rows' = [rows EXCEPT ![p] = Tail(@)]
        /\ saved' = [saved EXCEPT ![p] = Append(@, Row(p))]
        /\ phase' = [phase EXCEPT ![p] = "update"]
        /\ faults' = faults /\ since' = since
      BY DEF Advance, NextRow
  <1>2. Row(p) \in RowsOf(p) /\ Row(p) \in Codes \cup Entries
      BY <1>1, RowIsItsOwn
  <1>3. StoreTypeOK' /\ Loaded \subseteq Loaded' /\ stations \subseteq stations'
      BY <1>1, TablesGrow
  <1>4. TypeOK'
    <2>1. Tail(rows[p]) \in Seq(RowsOf(p)) /\ Tail(rows[p]) \in Seq(Codes \cup Entries)
        BY <1>1, HeadAndTail DEF TypeOK
    <2>2. /\ Append(saved[p], Row(p)) \in Seq(RowsOf(p))
          /\ Append(saved[p], Row(p)) \in Seq(Codes \cup Entries)
        BY <1>2, Appended DEF TypeOK
    <2>3. rows' \in [Loaders -> Seq(Codes \cup Entries)]
          /\ \A q \in Loaders : rows'[q] \in Seq(RowsOf(q))
        BY <1>1, <2>1 DEF TypeOK
    <2>4. saved' \in [Loaders -> Seq(Codes \cup Entries)]
          /\ \A q \in Loaders : saved'[q] \in Seq(RowsOf(q))
        BY <1>1, <2>2 DEF TypeOK
    <2>5. phase' \in [Loaders -> Phases] /\ created' \in [Loaders -> Nat]
      <3>1. phase' \in [Loaders -> Phases]
          BY <1>1 DEF TypeOK, Phases
      <3>2. created' = created \/ created' = [created EXCEPT ![p] = @ + 1]
          BY DEF Advance
      <3>3. created \in [Loaders -> Nat] /\ created[p] + 1 \in Nat
          BY DEF TypeOK
      <3> QED
          BY <3>1, <3>2, <3>3
    <2> QED
        BY <1>1, <1>3, <2>3, <2>4, <2>5 DEF TypeOK
  <1>5. Placed'
    <2> SUFFICES ASSUME NEW q \in Loaders
                 PROVE  /\ phase'[q] = "fetch" => rows'[q] = <<>> /\ saved'[q] = <<>>
                        /\ phase'[q] = "insert" => rows'[q] # <<>>
        BY DEF Placed
    <2>1. CASE q = p
        BY <1>1, <2>1 DEF TypeOK
    <2>2. CASE q # p
        BY <1>1, <2>2 DEF TypeOK, Placed
    <2> QED
        BY <2>1, <2>2
  <1>6. SavedRowsExist'
    <2> SUFFICES ASSUME NEW q \in Loaders, NEW i \in DOMAIN saved'[q]
                 PROVE  IF q \in LoadsRides
                        THEN saved'[q][i].ride \in Loaded'
                        ELSE saved'[q][i] \in stations'
        BY DEF SavedRowsExist
    <2>1. CASE i \in DOMAIN saved[q] /\ saved'[q][i] = saved[q][i]
        BY <1>3, <2>1 DEF SavedRowsExist
    <2>2. CASE q = p /\ saved'[q][i] = Row(p)
        BY <1>1, <2>2, RideStatement, StationStatement
    <2>3. CASE q # p
        BY <1>1, <2>1, <2>3 DEF TypeOK
    <2>4. CASE q = p
      <3>1. saved'[q] = Append(saved[p], Row(p)) /\ saved[p] \in Seq(Codes \cup Entries)
          BY <1>1, <2>4 DEF TypeOK
      <3>2. i \in 1..Len(saved[p]) \/ i = Len(saved[p]) + 1
          BY <1>2, <3>1, Appended
      <3> QED
          BY <1>2, <2>1, <2>2, <2>4, <3>1, <3>2, Appended
    <2> QED
        BY <2>3, <2>4
  <1> QED
      BY <1>4, <1>5, <1>6

LEMMA TurnKeepsInv ==
  ASSUME LoadingInv, NEW p \in Loaders, Turn(p)
  PROVE  LoadingInv'
  <1> USE DEF LoadingInv
  <1>1. PICK next \in {"insert", "conflict", "done", "failed"} :
            phase' = [phase EXCEPT ![p] = next]
      BY DEF Turn
  <1>2. /\ rows' = rows /\ saved' = saved /\ created' = created /\ since' = since
        /\ faults' \in 0..MaxFaults
      BY DEF Turn
  <1>3. StoreTypeOK' /\ Loaded \subseteq Loaded' /\ stations \subseteq stations'
    <2>1. CASE UNCHANGED storeVars
        BY <2>1 DEF storeVars, TypeOK, StoreTypeOK, Loaded
    <2> QED
        BY <2>1, TablesGrow DEF Turn
  <1>4. TypeOK'
      BY <1>1, <1>2, <1>3 DEF TypeOK, Phases
  <1>5. Placed'
      BY <1>1, <1>2 DEF Turn, TypeOK, Placed
  <1>6. SavedRowsExist'
      BY <1>2, <1>3 DEF SavedRowsExist
  <1> QED
      BY <1>4, <1>5, <1>6

LEMMA NextKeepsLoading ==
  ASSUME LoadingInv, [Next]_vars
  PROVE  LoadingInv'
  <1>1. CASE UNCHANGED vars
    <2>1. /\ UNCHANGED storeVars
          /\ rows' = rows /\ saved' = saved /\ phase' = phase
          /\ created' = created /\ since' = since /\ faults' = faults
        BY <1>1 DEF vars, loaderVars
    <2>2. StoreTypeOK' /\ Loaded' = Loaded /\ stations' = stations
        BY <2>1 DEF LoadingInv, TypeOK, StoreTypeOK, storeVars, Loaded
    <2> QED
        BY <2>1, <2>2 DEF LoadingInv, TypeOK, Placed, SavedRowsExist
  <1>2. ASSUME NEW p \in Loaders, LoaderStep(p) \/ Interrupted(p)
        PROVE  LoadingInv'
      BY <1>2, StepShape, FetchKeepsInv, AdvanceKeepsInv, TurnKeepsInv DEF LoadingInv
  <1> QED
      BY <1>1, <1>2 DEF Next

(* Nothing that a load has gone past is missing from the tables, with any  *)
(* number of loads at once (load.go:24-36, 66-76).                         *)
THEOREM SavedStaysSaved == Spec => []LoadingInv
  <1>1. Init => LoadingInv
      BY InitLoading
  <1>2. LoadingInv /\ [Next]_vars => LoadingInv'
      BY NextKeepsLoading
  <1> QED
      BY <1>1, <1>2, PTL DEF Spec

-----------------------------------------------------------------------------
(***************************************************************************)
(* What the history remembers: once a load has begun, every other load of  *)
(* its table that runs.                                                    *)
(***************************************************************************)
Began(p) == Running(p) \/ saved[p] # <<>>

Remembered ==
    \A p, q \in Loaders :
        (p # q /\ SameTable(p, q) /\ Began(p) /\ Running(q)) => q \in since[p]

LEMMA SinceGrows ==
  ASSUME LoadingInv, NEW p \in Loaders, Fetch(p) \/ Advance(p) \/ Turn(p),
         NEW q \in Loaders, q # p \/ ~Fetch(p)
  PROVE  since[q] \subseteq since'[q]
  <1>1. CASE Fetch(p) /\ Begins(p)
    <2>1. since'[q] = since[q] \cup {p} \/ since'[q] = since[q]
        BY <1>1 DEF Begins
    <2> QED
        BY <2>1
  <1>2. CASE since' = since
      BY <1>2
  <1>3. since' = since \/ (Fetch(p) /\ Begins(p))
      BY FetchBegins DEF Advance, Turn, LoadingInv
  <1> QED
      BY <1>1, <1>2, <1>3

LEMMA NextKeepsRemembered ==
  ASSUME LoadingInv, Remembered, NEW u \in Loaders, Fetch(u) \/ Advance(u) \/ Turn(u)
  PROVE  Remembered'
  <1> USE DEF LoadingInv
  <1> SUFFICES ASSUME NEW p \in Loaders, NEW q \in Loaders, p # q, SameTable(p, q),
                      Began(p)', Running(q)'
               PROVE  q \in since'[p]
      BY DEF Remembered, SameTable
  <1>1. CASE Fetch(u)
    <2>1. Begins(u) \/ q \in since'[p]
      <3>1. saved'[u] = <<>>
          BY <1>1, FetchShape DEF Placed
      <3>2. CASE u = p
          BY <1>1, <3>1, <3>2, FetchBegins DEF Began, Running
      <3>3. CASE u = q
          BY <1>1, <3>3, FetchBegins DEF Running
      <3>4. CASE u # p /\ u # q /\ phase'[u] = "failed" /\ since' = since
        <4>1. Began(p) /\ Running(q)
            BY <3>4, OthersStay DEF Began, Running
        <4>2. q \in since[p]
            BY <4>1 DEF Remembered
        <4> QED
            BY <3>4, <4>2
      <3> QED
          BY <1>1, <3>2, <3>3, <3>4, FetchBegins
    <2>2. CASE u = p
      <3>1. Running(q)
          BY <2>2, OthersStay DEF Running
      <3> QED
          BY <2>1, <2>2, <3>1 DEF Begins, SameTable
    <2>3. CASE u = q
      <3>1. Began(p)
          BY <2>3, OthersStay DEF Began, Running
      <3>2. phase[p] # "fetch"
          BY <3>1 DEF Began, Running, Placed
      <3> QED
          BY <2>1, <2>3, <3>2 DEF Begins
    <2>4. CASE u # p /\ u # q
      <3>1. Began(p) /\ Running(q)
          BY <2>4, OthersStay DEF Began, Running
      <3> QED
          BY <1>1, <2>4, <3>1, SinceGrows DEF Remembered
    <2> QED
        BY <2>1, <2>2, <2>3, <2>4
  <1>2. CASE Advance(u) \/ Turn(u)
    <2>1. Began(p)
      <3>1. CASE u = p
          BY <1>2, <3>1 DEF Advance, Turn, Began, Running
      <3> QED
          BY <3>1, OthersStay DEF Began, Running
    <2>2. Running(q)
      <3>1. CASE u = q
          BY <1>2, <3>1 DEF Advance, Turn, Running
      <3> QED
          BY <3>1, OthersStay DEF Running
    <2> QED
        BY <1>2, <2>1, <2>2 DEF Advance, Turn, Remembered
  <1> QED
      BY <1>1, <1>2

LEMMA TheHistory == Spec => []Remembered
  <1>1. Init => Remembered
      BY DEF Init, Remembered, Began, Running
  <1>2. LoadingInv /\ Remembered /\ [Next]_vars => Remembered'
    <2> SUFFICES ASSUME LoadingInv, Remembered, [Next]_vars
                 PROVE  Remembered'
        OBVIOUS
    <2>1. CASE UNCHANGED vars
      <3>1. phase' = phase /\ saved' = saved /\ since' = since
          BY <2>1 DEF vars, loaderVars
      <3> QED
          BY <3>1 DEF Remembered, Began, Running
    <2> QED
        BY <2>1, NextKeepsRemembered, StepShape DEF Next, LoadingInv
  <1> QED
      BY <1>1, <1>2, SavedStaysSaved, PTL DEF Spec

-----------------------------------------------------------------------------
(***************************************************************************)
(* Conflicts.                                                              *)
(***************************************************************************)
Overtaken(p) == \E q \in since[p] : Wrote(q, Key(p, Row(p)))

(* Before its INSERT, the row of a loader is still missing, unless another *)
(* load of its table has written it while this one ran.                    *)
MissingOrOvertaken ==
    \A p \in Loaders :
        /\ phase[p] = "insert" => ~Exists(p) \/ Overtaken(p)
        /\ phase[p] = "conflict" => Overtaken(p)

(* What a load has written stays written. *)
LEMMA WrittenStaysWritten ==
  ASSUME LoadingInv, NEW p \in Loaders, Fetch(p) \/ Advance(p) \/ Turn(p),
         NEW q \in Loaders, NEW key, Wrote(q, key)
  PROVE  Wrote(q, key)'
  <1> USE DEF LoadingInv
  <1>1. CASE q # p
    <2>1. phase'[q] = phase[q] /\ rows'[q] = rows[q] /\ saved'[q] = saved[q]
        BY <1>1, OthersStay
    <2> QED
        BY <2>1 DEF Wrote, Key, Row
  <1>2. CASE q = p /\ ~Advance(p)
    <2>1. saved'[p] = saved[p] /\ phase[p] # "failed"
        BY <1>2, FetchShape DEF Turn
    <2> QED
        BY <1>2, <2>1 DEF Wrote, Key
  <1>3. CASE q = p /\ Advance(p)
    <2>1. phase[p] # "failed" /\ rows[p] # <<>> /\ saved'[p] = Append(saved[p], Row(p))
        BY <1>3 DEF Advance, NextRow, TypeOK
    <2>2. Row(p) \in RowsOf(p) /\ saved[p] \in Seq(RowsOf(p))
        BY <2>1, RowIsItsOwn DEF TypeOK
    <2>3. PICK i \in DOMAIN saved[p] : Key(p, saved[p][i]) = key
        BY <1>3, <2>1 DEF Wrote
    <2>4. i \in DOMAIN saved'[p] /\ saved'[p][i] = saved[p][i]
        BY <2>1, <2>2, <2>3, Appended
    <2> QED
        BY <1>3, <2>3, <2>4 DEF Wrote, Key
  <1> QED
      BY <1>1, <1>2, <1>3

(* A loader that makes a row of its table exist has written it. *)
LEMMA NewRowsAreWritten ==
  ASSUME LoadingInv, NEW p \in Loaders, Fetch(p) \/ Advance(p) \/ Turn(p),
         NEW q \in Loaders, p # q, ~Exists(q), Exists(q)',
         NEW key, key = Key(q, Row(q))
  PROVE  SameTable(p, q) /\ Running(p) /\ Wrote(p, key)'
  <1> USE DEF LoadingInv
  <1>1. rows'[q] = rows[q]
      BY OthersStay
  <1>2. ~(Loaded' = Loaded /\ stations' = stations)
      BY <1>1 DEF Exists, Row
  <1>3. UNCHANGED storeVars => Loaded' = Loaded /\ stations' = stations
      BY DEF storeVars, Loaded
  <1>4. rows[p] # <<>> /\ Saves(p) /\ Running(p) /\ (Advance(p) \/ Turn(p))
      BY <1>2, <1>3, FetchShape DEF Advance, Turn, Running
  <1>5. SameTable(p, q) /\ key = Key(p, Row(p))
    <2>1. CASE p \in LoadsRides
      <3>1. Loaded' = Loaded \cup {Row(p).ride} /\ stations' = stations
          BY <1>4, <2>1, RideStatement
      <3> QED
          BY <1>1, <2>1, <3>1 DEF Exists, Row, SameTable, Key
    <2>2. CASE p \notin LoadsRides
      <3>1. stations' = stations \cup {Row(p)} /\ Loaded' = Loaded
          BY <1>4, <2>2, StationStatement
      <3> QED
          BY <1>1, <2>2, <3>1 DEF Exists, Row, SameTable, Key
    <2> QED
        BY <2>1, <2>2
  <1>6. Wrote(p, key)'
    <2>1. CASE Advance(p)
      <3>1. saved'[p] = Append(saved[p], Row(p))
          BY <2>1 DEF Advance, NextRow, TypeOK
      <3>2. Row(p) \in RowsOf(p) /\ saved[p] \in Seq(RowsOf(p))
          BY <1>4, RowIsItsOwn DEF TypeOK
      <3>3. /\ Len(saved[p]) + 1 \in DOMAIN saved'[p]
            /\ saved'[p][Len(saved[p]) + 1] = Row(p)
          BY <3>1, <3>2, Appended
      <3> QED
          BY <1>5, <3>3 DEF Wrote, Key
    <2>2. CASE Turn(p)
      <3>1. phase'[p] = "failed" /\ rows' = rows
          BY <1>2, <1>3, <2>2 DEF Turn
      <3> QED
          BY <1>4, <1>5, <3>1 DEF Wrote, Key, Row
    <2> QED
        BY <1>4, <2>1, <2>2
  <1> QED
      BY <1>4, <1>5, <1>6

LEMMA NextKeepsMissing ==
  ASSUME LoadingInv, Remembered, MissingOrOvertaken, NEW p \in Loaders,
         Fetch(p) \/ Advance(p) \/ Turn(p)
  PROVE  MissingOrOvertaken'
  <1> USE DEF LoadingInv
  <1> SUFFICES ASSUME NEW q \in Loaders
               PROVE  /\ phase'[q] = "insert" => ~Exists(q)' \/ Overtaken(q)'
                      /\ phase'[q] = "conflict" => Overtaken(q)'
      BY DEF MissingOrOvertaken
  <1>1. ASSUME rows'[q] = rows[q], since[q] \subseteq since'[q], Overtaken(q)
        PROVE  Overtaken(q)'
    <2>1. PICK key : key = Key(q, Row(q))
        OBVIOUS
    <2>2. PICK u \in since[q] : Wrote(u, key)
        BY <1>1, <2>1 DEF Overtaken
    <2>3. u \in Loaders
        BY <2>2 DEF TypeOK
    <2>4. Wrote(u, key)'
        BY <2>2, <2>3, WrittenStaysWritten
    <2>5. key = Key(q, Row(q))'
        BY <1>1, <2>1 DEF Key, Row
    <2> QED
        BY <1>1, <2>2, <2>4, <2>5 DEF Overtaken
  <1>2. CASE q = p
    <2>1. CASE Fetch(p)
        BY <1>2, <2>1, FetchShape DEF TypeOK
    <2>2. CASE Advance(p)
        BY <1>2, <2>2 DEF Advance, NextRow, TypeOK
    <2>3. CASE Turn(p)
      <3>1. rows' = rows /\ since' = since
          BY <2>3 DEF Turn
      <3>2. CASE phase'[p] = "conflict"
        <4>1. Overtaken(p)
            BY <2>3, <3>2 DEF Turn, MissingOrOvertaken
        <4> QED
            BY <1>1, <1>2, <3>1, <3>2, <4>1
      <3>3. CASE phase'[p] = "insert"
        <4>1. ~Exists(p) /\ UNCHANGED storeVars
            BY <2>3, <3>3 DEF Turn
        <4>2. rides' = rides /\ stations' = stations
            BY <4>1 DEF storeVars
        <4>3. ~Exists(p)'
            BY <3>1, <4>1, <4>2 DEF Exists, Row, Loaded
        <4> QED
            BY <1>2, <3>3, <4>3
      <3> QED
          BY <1>2, <3>2, <3>3
    <2> QED
        BY <2>1, <2>2, <2>3
  <1>3. CASE q # p
    <2>1. phase'[q] = phase[q] /\ rows'[q] = rows[q]
        BY <1>3, OthersStay
    <2>2. since[q] \subseteq since'[q]
        BY <1>3, SinceGrows
    <2>3. CASE Overtaken(q)
        BY <1>1, <2>1, <2>2, <2>3
    <2>4. CASE ~Overtaken(q) /\ phase[q] = "insert" /\ Exists(q)'
      <3>1. ~Exists(q)
          BY <2>4 DEF MissingOrOvertaken
      <3>2. PICK key : key = Key(q, Row(q))
          OBVIOUS
      <3>3. SameTable(p, q) /\ Running(p) /\ Wrote(p, key)'
          BY <1>3, <2>4, <3>1, <3>2, NewRowsAreWritten
      <3>4. p \in since[q]
          BY <1>3, <2>4, <3>3 DEF Remembered, Began, Running, SameTable
      <3>5. key = Key(q, Row(q))'
          BY <2>1, <3>2 DEF Key, Row
      <3> QED
          BY <2>2, <3>3, <3>4, <3>5 DEF Overtaken
    <2> QED
        BY <2>1, <2>3, <2>4 DEF MissingOrOvertaken
  <1> QED
      BY <1>2, <1>3

(* An upsert fails only when another load of its table has written the row *)
(* while this one ran (rides/repository.go:81-118,                         *)
(* stations/repository.go:60-93).                                          *)
THEOREM OnlyOverlapsConflict == Spec => []ConflictsNeedOverlap
  <1>1. Init => MissingOrOvertaken
      BY DEF Init, MissingOrOvertaken
  <1>2. LoadingInv /\ Remembered /\ MissingOrOvertaken /\ [Next]_vars => MissingOrOvertaken'
    <2> SUFFICES ASSUME LoadingInv, Remembered, MissingOrOvertaken, [Next]_vars
                 PROVE  MissingOrOvertaken'
        OBVIOUS
    <2>1. CASE UNCHANGED vars
      <3>1. /\ UNCHANGED storeVars /\ phase' = phase /\ rows' = rows
            /\ saved' = saved /\ since' = since
          BY <2>1 DEF vars, loaderVars
      <3>2. Loaded' = Loaded /\ stations' = stations
          BY <3>1 DEF storeVars, Loaded
      <3>3. \A p \in Loaders : Exists(p)' = Exists(p) /\ Overtaken(p)' = Overtaken(p)
          BY <3>1, <3>2 DEF Exists, Row, Overtaken, Wrote, Key
      <3> QED
          BY <3>1, <3>3 DEF MissingOrOvertaken
    <2> QED
        BY <2>1, NextKeepsMissing, StepShape DEF Next, LoadingInv
  <1>3. MissingOrOvertaken => ConflictsNeedOverlap
      BY DEF MissingOrOvertaken, Overtaken, ConflictsNeedOverlap
  <1> QED
      BY <1>1, <1>2, <1>3, SavedStaysSaved, TheHistory, PTL DEF Spec

-----------------------------------------------------------------------------
(***************************************************************************)
(* Loads in turn.                                                          *)
(***************************************************************************)
LoadsTakeTurns ==
    \A p, q \in Loaders : (SameTable(p, q) /\ Running(p) /\ Running(q)) => p = q

StillMissing == \A p \in Loaders : phase[p] = "insert" => ~Exists(p)

LEMMA TurnsKeepMissing ==
  ASSUME LoadingInv, LoadsTakeTurns, StillMissing, NoConflict, NEW p \in Loaders,
         Fetch(p) \/ Advance(p) \/ Turn(p)
  PROVE  StillMissing' /\ NoConflict'
  <1> USE DEF LoadingInv
  <1> SUFFICES ASSUME NEW q \in Loaders
               PROVE  /\ phase'[q] = "insert" => ~Exists(q)'
                      /\ phase'[q] # "conflict"
      BY DEF StillMissing, NoConflict
  <1>1. CASE q = p
    <2>1. CASE Fetch(p)
        BY <1>1, <2>1, FetchShape DEF TypeOK
    <2>2. CASE Advance(p)
        BY <1>1, <2>2 DEF Advance, NextRow, TypeOK
    <2>3. CASE Turn(p)
      <3>1. phase'[p] # "conflict"
          BY <2>3 DEF Turn, StillMissing
      <3>2. ASSUME phase'[p] = "insert"
            PROVE  ~Exists(p)'
        <4>1. ~Exists(p) /\ rows' = rows /\ UNCHANGED storeVars
            BY <2>3, <3>2 DEF Turn
        <4>2. rides' = rides /\ stations' = stations
            BY <4>1 DEF storeVars
        <4> QED
            BY <4>1, <4>2 DEF Exists, Row, Loaded
      <3> QED
          BY <1>1, <3>1, <3>2
    <2> QED
        BY <2>1, <2>2, <2>3
  <1>2. CASE q # p
    <2>1. phase'[q] = phase[q]
        BY <1>2, OthersStay
    <2>2. ASSUME phase[q] = "insert", Exists(q)'
          PROVE  FALSE
      <3>1. ~Exists(q)
          BY <2>2 DEF StillMissing
      <3>2. PICK key : key = Key(q, Row(q))
          OBVIOUS
      <3>3. SameTable(p, q) /\ Running(p)
          BY <1>2, <2>2, <3>1, <3>2, NewRowsAreWritten
      <3> QED
          BY <1>2, <2>2, <3>3 DEF LoadsTakeTurns, Running
    <2> QED
        BY <2>1, <2>2 DEF NoConflict
  <1> QED
      BY <1>1, <1>2

(* As long as no two loads of one table run at the same time, no upsert    *)
(* fails, however many loads there are, one after the other, and wherever  *)
(* an earlier one was cut off (rides/repository.go:81-118,                 *)
(* stations/repository.go:60-93).                                          *)
THEOREM TurnsNeverConflict == Spec /\ []LoadsTakeTurns => []NoConflict
  <1>1. Init => StillMissing /\ NoConflict
      BY DEF Init, StillMissing, NoConflict
  <1>2. LoadingInv /\ LoadsTakeTurns /\ StillMissing /\ NoConflict /\ [Next]_vars
            => StillMissing' /\ NoConflict'
    <2> SUFFICES ASSUME LoadingInv, LoadsTakeTurns, StillMissing, NoConflict, [Next]_vars
                 PROVE  StillMissing' /\ NoConflict'
        OBVIOUS
    <2>1. CASE UNCHANGED vars
      <3>1. UNCHANGED storeVars /\ phase' = phase /\ rows' = rows
          BY <2>1 DEF vars, loaderVars
      <3>2. Loaded' = Loaded /\ stations' = stations
          BY <3>1 DEF storeVars, Loaded
      <3> QED
          BY <3>1, <3>2 DEF StillMissing, NoConflict, Exists, Row
    <2> QED
        BY <2>1, TurnsKeepMissing, StepShape DEF Next, LoadingInv
  <1> QED
      BY <1>1, <1>2, SavedStaysSaved, PTL DEF Spec

-----------------------------------------------------------------------------
(* All that loads do to the tables is what RideChecks lets them do, so     *)
(* what is proved of the checks holds next to any number of loads          *)
(* (console/load.go, with the two Saves).                                  *)
THEOREM LoadsImplementLoadSpec == Spec => LoadSpec
  <1>1. Init => StoreInit
      BY DEF Init
  <1>2. LoadingInv /\ [Next]_vars => [LoadStatement(Export)]_storeVars
    <2> SUFFICES ASSUME LoadingInv, [Next]_vars
                 PROVE  LoadStatement(Export) \/ UNCHANGED storeVars
        OBVIOUS
    <2>1. CASE UNCHANGED vars
        BY <2>1 DEF vars
    <2>2. ASSUME NEW p \in Loaders, LoaderStep(p) \/ Interrupted(p)
          PROVE  LoadStatement(Export) \/ UNCHANGED storeVars
      <3>1. UNCHANGED storeVars \/ (rows[p] # <<>> /\ Saves(p))
          BY <2>2, StepShape, FetchShape DEF Advance, Turn, LoadingInv
      <3> QED
          BY <3>1, RideStatement, StationStatement DEF LoadingInv
    <2> QED
        BY <2>1, <2>2 DEF Next
  <1> QED
      BY <1>1, <1>2, SavedStaysSaved, PTL DEF Spec, LoadSpec

-----------------------------------------------------------------------------
(***************************************************************************)
(* The last entry of a ride.                                               *)
(***************************************************************************)
LastWord(p, i) ==
    \/ \E k \in DOMAIN saved[p] : k > i /\ saved[p][k].ride = saved[p][i].ride
    \/ rides[saved[p][i].ride] = saved[p][i].content
    \/ /\ phase[p] = "failed"
       /\ Row(p).ride = saved[p][i].ride /\ rides[saved[p][i].ride] = Row(p).content

LEMMA NextKeepsLastEntry ==
  ASSUME LoadingInv, Remembered, LastEntryWins, NEW q \in Loaders,
         Fetch(q) \/ Advance(q) \/ Turn(q)
  PROVE  LastEntryWins'
  <1> USE DEF LoadingInv
  <1> SUFFICES ASSUME NEW p \in LoadsRides, since'[p] = {}, NEW i \in DOMAIN saved'[p]
               PROVE  LastWord(p, i)'
      BY DEF LastEntryWins, LastWord, Row
  <1>1. p \in Loaders /\ LoadsRides \subseteq Loaders
      BY LoadingAssumption DEF LoadingAssumption
  <1>2. saved[p] \in Seq(Entries) /\ DOMAIN saved[p] = 1..Len(saved[p]) /\ Len(saved[p]) \in Nat
    <2>1. saved[p] \in Seq(Entries)
        BY <1>1 DEF TypeOK, RowsOf
    <2> QED
        BY <2>1
  <1>3. ~(q = p /\ Fetch(q))
    <2>1. CASE q = p /\ Fetch(q)
      <3>1. saved'[p] = <<>>
          BY <1>1, <2>1, FetchShape DEF Placed
      <3> QED
          BY <3>1
    <2> QED
        BY <2>1
  <1>4. since[p] = {}
      BY <1>1, <1>3, SinceGrows
  <1>5. \A j \in DOMAIN saved[p] : LastWord(p, j)
      BY <1>4 DEF LastEntryWins, LastWord
  <1>6. CASE q # p
    <2>1. phase'[p] = phase[p] /\ saved'[p] = saved[p] /\ rows'[p] = rows[p]
        BY <1>1, <1>6, OthersStay
    <2>2. rides' = rides
      <3>1. CASE UNCHANGED storeVars
          BY <3>1 DEF storeVars
      <3>2. CASE q \notin LoadsRides /\ rows[q] # <<>> /\ Saves(q)
          BY <3>2, StationStatement
      <3>3. ~(q \in LoadsRides /\ (Advance(q) \/ Turn(q)))
        <4>1. CASE q \in LoadsRides /\ (Advance(q) \/ Turn(q))
          <5>1. Running(q)
              BY <4>1 DEF Advance, Turn, Running
          <5>2. Began(p)
              BY <2>1 DEF Began
          <5>3. q \in since[p]
              BY <1>1, <1>6, <4>1, <5>1, <5>2 DEF Remembered, SameTable
          <5> QED
              BY <1>4, <5>3
        <4> QED
            BY <4>1
      <3> QED
          BY <3>1, <3>2, <3>3, FetchShape DEF Advance, Turn
    <2> QED
        BY <1>5, <2>1, <2>2 DEF LastWord, Row
  <1>7. CASE q = p /\ Turn(p)
    <2>1. saved' = saved /\ rows' = rows /\ i \in DOMAIN saved[p] /\ phase[p] # "failed"
        BY <1>7 DEF Turn
    <2>2. CASE UNCHANGED storeVars
      <3>1. rides' = rides
          BY <2>2 DEF storeVars
      <3> QED
          BY <1>5, <2>1, <3>1 DEF LastWord
    <2>3. CASE rows[p] # <<>> /\ Saves(p) /\ phase'[p] = "failed"
      <3>1. rides' = [rides EXCEPT ![Row(p).ride] = Row(p).content]
            /\ rides'[Row(p).ride] = Row(p).content
          BY <1>1, <2>3, RideStatement
      <3>2. Row(p)' = Row(p)
          BY <2>1 DEF Row
      <3>3. CASE saved[p][i].ride = Row(p).ride
          BY <2>1, <2>3, <3>1, <3>2, <3>3 DEF LastWord
      <3>4. CASE saved[p][i].ride # Row(p).ride
        <4>1. saved[p][i] \in ExportRow
            BY <1>2, <2>1, EntriesAreRows
        <4>2. rides'[saved[p][i].ride] = rides[saved[p][i].ride]
            BY <3>1, <3>4, <4>1 DEF TypeOK, StoreTypeOK, ExportRow
        <4> QED
            BY <1>5, <2>1, <4>2 DEF LastWord
      <3> QED
          BY <3>3, <3>4
    <2> QED
        BY <1>7, <2>2, <2>3 DEF Turn
  <1>8. CASE q = p /\ Advance(p)
    <2>1. /\ rows[p] # <<>> /\ Saves(p) /\ phase[p] # "failed"
          /\ saved' = [saved EXCEPT ![p] = Append(@, Row(p))]
        BY <1>8 DEF Advance, NextRow
    <2>2. Row(p) \in Entries /\ Row(p) \in ExportRow
        BY <1>1, <2>1, RowIsItsOwn
    <2>3. saved'[p] = Append(saved[p], Row(p))
        BY <1>1, <2>1 DEF TypeOK
    <2> DEFINE n == Len(saved[p]) + 1
    <2>4. /\ DOMAIN saved'[p] = 1..n /\ saved'[p][n] = Row(p)
          /\ \A j \in 1..Len(saved[p]) : saved'[p][j] = saved[p][j]
        BY <1>2, <2>2, <2>3, Appended
    <2>5. rides' = [rides EXCEPT ![Row(p).ride] = Row(p).content]
          /\ rides'[Row(p).ride] = Row(p).content
        BY <1>1, <2>1, RideStatement
    <2>6. CASE i = n
        BY <2>4, <2>5, <2>6 DEF LastWord
    <2>7. CASE i \in 1..Len(saved[p])
      <3>1. saved'[p][i] = saved[p][i] /\ i \in DOMAIN saved[p]
          BY <1>2, <2>4, <2>7
      <3>2. CASE saved[p][i].ride = Row(p).ride
        <4>1. n \in DOMAIN saved'[p] /\ n > i
            BY <1>2, <2>4, <2>7
        <4> QED
            BY <2>4, <3>1, <3>2, <4>1 DEF LastWord
      <3>3. CASE rides[saved[p][i].ride] = saved[p][i].content /\ saved[p][i].ride # Row(p).ride
        <4>1. saved[p][i] \in ExportRow
            BY <1>2, <3>1, EntriesAreRows
        <4>2. rides'[saved[p][i].ride] = rides[saved[p][i].ride]
            BY <2>5, <3>3, <4>1 DEF TypeOK, StoreTypeOK, ExportRow
        <4> QED
            BY <3>1, <3>3, <4>2 DEF LastWord
      <3>4. CASE \E k \in DOMAIN saved[p] : k > i /\ saved[p][k].ride = saved[p][i].ride
        <4>1. PICK k \in DOMAIN saved[p] : k > i /\ saved[p][k].ride = saved[p][i].ride
            BY <3>4
        <4>2. k \in DOMAIN saved'[p] /\ saved'[p][k] = saved[p][k]
            BY <1>2, <2>4, <4>1
        <4> QED
            BY <3>1, <4>1, <4>2 DEF LastWord
      <3> QED
          BY <1>5, <2>1, <3>1, <3>2, <3>3, <3>4 DEF LastWord
    <2> QED
        BY <1>2, <2>4, <2>6, <2>7
  <1> QED
      BY <1>6, <1>7, <1>8, <1>3

(* An export that is loaded while no other is, and that none has followed, *)
(* has the last word on its rides, over whatever earlier loads, done or    *)
(* cut off, have left (rides/repository.go:81-118, load.go:66-76).         *)
THEOREM TheLastEntryStays == Spec => []LastEntryWins
  <1>1. Init => LastEntryWins
      BY LoadingAssumption DEF Init, LastEntryWins, LoadingAssumption
  <1>2. LoadingInv /\ Remembered /\ LastEntryWins /\ [Next]_vars => LastEntryWins'
    <2> SUFFICES ASSUME LoadingInv, Remembered, LastEntryWins, [Next]_vars
                 PROVE  LastEntryWins'
        OBVIOUS
    <2>1. CASE UNCHANGED vars
      <3>1. /\ rides' = rides /\ phase' = phase /\ saved' = saved
            /\ rows' = rows /\ since' = since
          BY <2>1 DEF vars, loaderVars, storeVars
      <3> QED
          BY <3>1 DEF LastEntryWins, Row
    <2> QED
        BY <2>1, NextKeepsLastEntry, StepShape DEF Next, LoadingInv
  <1> QED
      BY <1>1, <1>2, SavedStaysSaved, TheHistory, PTL DEF Spec

-----------------------------------------------------------------------------
(***************************************************************************)
(* The rows and the counters.  The tables are finite, as rows come one by  *)
(* one, and an INSERT is counted by its loader or paid for by a fault.     *)
(***************************************************************************)
TablesFinite == IsFiniteSet(stations) /\ IsFiniteSet(Loaded)

RowsHeld == Cardinality(stations) + Cardinality(Loaded)

OneRowMore ==
    \/ \E code \in Codes \ stations : stations' = stations \cup {code} /\ Loaded' = Loaded
    \/ \E r \in Rides \ Loaded : Loaded' = Loaded \cup {r} /\ stations' = stations

LEMMA RowsAreCounted ==
  ASSUME TablesFinite, OneRowMore
  PROVE  TablesFinite' /\ RowsHeld' = RowsHeld + 1
  <1>1. Cardinality(stations) \in Nat /\ Cardinality(Loaded) \in Nat
      BY FS_CardinalityType DEF TablesFinite
  <1>2. ASSUME NEW code \in Codes \ stations, stations' = stations \cup {code}, Loaded' = Loaded
        PROVE  TablesFinite' /\ RowsHeld' = RowsHeld + 1
    <2>1. IsFiniteSet(stations') /\ Cardinality(stations') = Cardinality(stations) + 1
        BY <1>2, FS_AddElement DEF TablesFinite
    <2> QED
        BY <1>1, <1>2, <2>1 DEF TablesFinite, RowsHeld
  <1>3. ASSUME NEW r \in Rides \ Loaded, Loaded' = Loaded \cup {r}, stations' = stations
        PROVE  TablesFinite' /\ RowsHeld' = RowsHeld + 1
    <2>1. IsFiniteSet(Loaded') /\ Cardinality(Loaded') = Cardinality(Loaded) + 1
        BY <1>3, FS_AddElement DEF TablesFinite
    <2> QED
        BY <1>1, <1>3, <2>1 DEF TablesFinite, RowsHeld
  <1> QED
      BY <1>2, <1>3 DEF OneRowMore

LEMMA InsertAddsARow ==
  ASSUME TypeOK, NEW p \in Loaders, rows[p] # <<>>, InsertStatement(p)
  PROVE  OneRowMore
  <1>1. CASE p \in LoadsRides
    <2>1. Row(p).ride \notin Loaded /\ Row(p).ride \in Rides
        BY <1>1, RowIsItsOwn DEF InsertStatement, InsertRide, ExportRow
    <2>2. Loaded' = Loaded \cup {Row(p).ride} /\ stations' = stations
        BY <1>1, RideStatement DEF Saves
    <2> QED
        BY <2>1, <2>2 DEF OneRowMore
  <1>2. CASE p \notin LoadsRides
    <2>1. Row(p) \notin stations /\ Row(p) \in Codes
        BY <1>2, RowIsItsOwn DEF InsertStatement, InsertStation
    <2>2. stations' = stations \cup {Row(p)} /\ Loaded' = Loaded
        BY <1>2, StationStatement DEF Saves
    <2> QED
        BY <2>1, <2>2 DEF OneRowMore
  <1> QED
      BY <1>1, <1>2

LEMMA UpdateAddsNone ==
  ASSUME TypeOK, NEW p \in Loaders, rows[p] # <<>>, UpdateStatement(p)
  PROVE  stations' = stations /\ Loaded' = Loaded
  <1>1. CASE p \in LoadsRides
    <2>1. Row(p).ride \in Loaded
        BY <1>1 DEF UpdateStatement, UpdateRide
    <2> QED
        BY <1>1, <2>1, RideStatement DEF Saves
  <1>2. CASE p \notin LoadsRides
    <2>1. Row(p) \in stations
        BY <1>2 DEF UpdateStatement, UpdateStation
    <2> QED
        BY <1>2, <2>1, StationStatement DEF Saves
  <1> QED
      BY <1>1, <1>2

\* A row more is counted or has cost a fault; else nothing is counted.
Accounts(p) ==
    \/ stations' = stations /\ Loaded' = Loaded /\ created' = created /\ faults' \in {faults, faults + 1}
    \/ OneRowMore /\ created' = [created EXCEPT ![p] = @ + 1] /\ faults' = faults
    \/ OneRowMore /\ created' = created /\ faults' = faults + 1

LEMMA StepAccounts ==
  ASSUME LoadingInv, NEW p \in Loaders, LoaderStep(p) \/ Interrupted(p)
  PROVE  Accounts(p)
  <1> USE DEF LoadingInv
  <1>1. UNCHANGED storeVars => stations' = stations /\ Loaded' = Loaded
      BY DEF storeVars, Loaded
  <1>2. CASE Fetch(p)
      BY <1>1, <1>2, FetchShape DEF Accounts
  <1>3. CASE Update(p)
      BY <1>1, <1>3, UpdateAddsNone DEF Update, Accounts
  <1>4. CASE Insert(p)
    <2>1. rows[p] # <<>>
        BY <1>4 DEF Insert, Placed
    <2> QED
        BY <1>1, <1>4, <2>1, InsertAddsARow DEF Insert, Accounts
  <1>5. CASE Done(p)
      BY <1>1, <1>5 DEF Done, Accounts
  <1>6. CASE Interrupted(p)
      BY <1>1, <1>6, UpdateAddsNone, InsertAddsARow DEF Interrupted, Accounts
  <1> QED
      BY <1>2, <1>3, <1>4, <1>5, <1>6 DEF LoaderStep

Counted == SumOver(created, Loaders)

CountInv == TablesFinite /\ RowsHeld - Counted \in 0..faults

LEMMA StepKeepsCount ==
  ASSUME LoadingInv, CountInv, NEW p \in Loaders, LoaderStep(p) \/ Interrupted(p)
  PROVE  CountInv'
  <1>1. created \in [Loaders -> Nat] /\ faults \in Nat /\ IsFiniteSet(Loaders)
      BY LoadingAssumption DEF LoadingAssumption, LoadingInv, TypeOK
  <1>2. Counted \in Int
      BY <1>1, SumIsInt DEF Counted
  <1>3. RowsHeld \in Int
      BY FS_CardinalityType DEF CountInv, TablesFinite, RowsHeld
  <1>4. stations' = stations /\ Loaded' = Loaded => TablesFinite' /\ RowsHeld' = RowsHeld
      BY DEF CountInv, TablesFinite, RowsHeld
  <1>5. created' = created => Counted' = Counted
      BY DEF Counted
  <1>6. created' = [created EXCEPT ![p] = @ + 1] => Counted' = Counted + 1
    <2>1. created \in [Loaders -> Int]
        BY <1>1
    <2> QED
        BY <1>1, <2>1, SumWithOneMore DEF Counted
  <1>7. OneRowMore => TablesFinite' /\ RowsHeld' = RowsHeld + 1
      BY RowsAreCounted DEF CountInv
  <1>8. Accounts(p)
      BY StepAccounts
  <1> QED
      BY <1>1, <1>2, <1>3, <1>4, <1>5, <1>6, <1>7, <1>8 DEF CountInv, Accounts

(* The counts that the commands print add up to the rows of the tables,    *)
(* but for INSERTs that were committed and then cancelled                  *)
(* (load.go:30-34, 72-76).                                                 *)
THEOREM CreatedRowsAddUp == Spec => []CreatedAreRows
  <1>1. Init => CountInv
    <2> SUFFICES ASSUME Init
                 PROVE  CountInv
        OBVIOUS
    <2>1. stations = {} /\ Loaded = {}
        BY DEF Init, StoreInit, Loaded
    <2>2. TablesFinite /\ RowsHeld = 0
        BY <2>1, FS_EmptySet DEF TablesFinite, RowsHeld
    <2>3. IsFiniteSet(Loaders) /\ \A p \in Loaders : created[p] = 0
        BY LoadingAssumption DEF Init, LoadingAssumption
    <2>4. Counted = 0
        BY <2>3, SumOfZeros DEF Counted
    <2> QED
        BY <2>2, <2>4 DEF Init, CountInv
  <1>2. LoadingInv /\ CountInv /\ [Next]_vars => CountInv'
    <2>1. ASSUME CountInv, UNCHANGED vars
          PROVE  CountInv'
      <3>1. stations' = stations /\ Loaded' = Loaded /\ created' = created /\ faults' = faults
          BY <2>1 DEF vars, storeVars, loaderVars, Loaded
      <3> QED
          BY <2>1, <3>1 DEF CountInv, TablesFinite, RowsHeld, Counted
    <2> QED
        BY <2>1, StepKeepsCount DEF Next
  <1>3. CountInv => CreatedAreRows
      BY DEF CountInv, RowsHeld, Counted, SumOver, CreatedAreRows
  <1> QED
      BY <1>1, <1>2, <1>3, SavedStaysSaved, PTL DEF Spec
=============================================================================
