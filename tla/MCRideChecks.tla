---------------------------- MODULE MCRideChecks ----------------------------
(***************************************************************************)
(* Instances of RideChecks for TLC.                                        *)
(***************************************************************************)
EXTENDS RideChecks, TLC

CONSTANTS w1, w2, w3, r1, r2, s1, s2, t1, t2

There == [from |-> s1, to |-> s2, at |-> t1]
Back  == [from |-> s2, to |-> s1, at |-> t2]

\* The check workers of docker-compose.yml, one for each list.
DistanceWorker == w2 :> <<RideDistanceChecks>>

WeatherWorker == w3 :> <<RideWeatherChecks>>

\* Next to the distance worker, one of "work -queue=default,ride_weather_checks".
SharedWorker == (w1 :> <<Default, RideWeatherChecks>>) @@ DistanceWorker

\* "work -queue=ride_distance_checks,ride_weather_checks"
BothLists == w1 :> <<RideDistanceChecks, RideWeatherChecks>>

\* An export that never changes, and one whose later version differs.
Stable    == [r \in Rides |-> {There}]
Corrected == [r \in Rides |-> {There, Back}]
=============================================================================
