------------------------------- MODULE Store -------------------------------
(***************************************************************************)
(* The SQLite file that the API, the commands and every worker share: the  *)
(* tables the background jobs read and write, and the statements of the    *)
(* repositories on them.                                                   *)
(*                                                                         *)
(* Nothing runs in a transaction of several statements (there is no Begin  *)
(* in the code), so a statement is the unit of atomicity: every operator   *)
(* below is one statement, or one row of a query.                          *)
(*                                                                         *)
(* A row keeps the columns that the jobs act on.  A travel time stands for *)
(* its hour, and the code of a station for its place.  The only mode that  *)
(* a route is asked for is bike.                                           *)
(***************************************************************************)
EXTENDS Naturals, FiniteSets

CONSTANTS
    Rides,   \* ride ids
    Codes,   \* station codes
    Times,   \* check-in times
    Absent   \* no row

Content == [from: Codes, to: Codes, at: Times]

Observation == [station: Codes, at: Times]

ASSUME StoreAssumption == Absent \notin Content \cup Observation

VARIABLES
    stations,         \* ids of the rows of stations
    rides,            \* rides[r]: what the row of r says, or Absent
    distanceChecked,  \* rides whose distance_checked_at is not NULL
    weatherChecked,   \* rides whose weather_checked_at is not NULL
    routes,           \* station pairs with a row in station_routes
    weather           \* weather[r]: the row of r in weather_records, or Absent

storeVars ==
    <<stations, rides, distanceChecked, weatherChecked, routes, weather>>

StoreInit ==
    /\ stations = {}
    /\ rides = [r \in Rides |-> Absent]
    /\ distanceChecked = {}
    /\ weatherChecked = {}
    /\ routes = {}
    /\ weather = [r \in Rides |-> Absent]

StoreTypeOK ==
    /\ stations \subseteq Codes
    /\ rides \in [Rides -> Content \cup {Absent}]
    /\ distanceChecked \subseteq Rides
    /\ weatherChecked \subseteq Rides
    /\ routes \subseteq Codes \X Codes
    /\ weather \in [Rides -> Observation \cup {Absent}]

Loaded == {r \in Rides : rides[r] # Absent}

Pair(content) == <<content.from, content.to>>

\* What Open-Meteo observed where and when a ride with this content began
\* and ended: the origin's place, the check-in's hour.
Observed(content) == [station |-> content.from, at |-> content.at]

-----------------------------------------------------------------------------
(***************************************************************************)
(* The two statements of a Save, for rides and for stations.  An UPDATE of *)
(* a ride leaves its two checked columns alone.  An export has no checked  *)
(* columns, they are NULL in a new row.  The key is the primary key.       *)
(***************************************************************************)
\* Mutant of UpdateRide: the UPDATE clears a checked column, as INSERT OR
\* REPLACE would.
ReplaceRide(r, content) ==
    /\ r \in Loaded
    /\ rides' = [rides EXCEPT ![r] = content]
    /\ distanceChecked' = distanceChecked \ {r}
    /\ UNCHANGED <<stations, weatherChecked, routes, weather>>

UpdateRide(r, content) ==
    /\ r \in Loaded
    /\ rides' = [rides EXCEPT ![r] = content]
    /\ UNCHANGED <<stations, distanceChecked, weatherChecked, routes, weather>>

InsertRide(r, content) ==
    /\ r \notin Loaded
    /\ rides' = [rides EXCEPT ![r] = content]
    /\ distanceChecked' = distanceChecked \ {r}
    /\ weatherChecked' = weatherChecked \ {r}
    /\ UNCHANGED <<stations, routes, weather>>

UpdateStation(code) ==
    /\ code \in stations
    /\ UNCHANGED storeVars

InsertStation(code) ==
    /\ code \notin stations
    /\ stations' = stations \cup {code}
    /\ UNCHANGED <<rides, distanceChecked, weatherChecked, routes, weather>>

\* What a load of stations or rides may do to the tables in a statement,
\* when export[r] is the set of what the exports say of ride r.
LoadStatement(export) ==
    \/ \E code \in Codes : InsertStation(code)
    \/ \E r \in Rides : \E content \in export[r] :
          InsertRide(r, content) \/ UpdateRide(r, content)

-----------------------------------------------------------------------------
\* rides.Repository.IDs
UncheckedDistance == Loaded \ distanceChecked

UncheckedWeather == Loaded \ weatherChecked

\* rides.Repository.MarkChecked: an UPDATE, which touches no row of a ride
\* that is not there.
MarkDistance(r) ==
    /\ distanceChecked' = distanceChecked \cup ({r} \cap Loaded)
    /\ UNCHANGED <<stations, rides, weatherChecked, routes, weather>>

MarkWeather(r) ==
    /\ weatherChecked' = weatherChecked \cup ({r} \cap Loaded)
    /\ UNCHANGED <<stations, rides, distanceChecked, routes, weather>>

-----------------------------------------------------------------------------
(***************************************************************************)
(* The upserts of the two caches.  The foreign keys are enforced (Open     *)
(* sets the pragma): a parent row must be there.                           *)
(***************************************************************************)
RouteAllowed(pair) == {pair[1], pair[2]} \subseteq stations

SaveRoute(pair) ==
    /\ RouteAllowed(pair)
    /\ routes' = routes \cup {pair}
    /\ UNCHANGED <<stations, rides, distanceChecked, weatherChecked, weather>>

WeatherAllowed(r) == r \in Loaded

SaveWeather(r, observation) ==
    /\ WeatherAllowed(r)
    /\ weather' = [weather EXCEPT ![r] = observation]
    /\ UNCHANGED <<stations, rides, distanceChecked, weatherChecked, routes>>
=============================================================================
