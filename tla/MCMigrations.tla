---------------------------- MODULE MCMigrations ----------------------------
(***************************************************************************)
(* An instance of Migrations for TLC: two of the five files, one with a    *)
(* table and its index and one with a table alone, as 0003 and 0001 are.   *)
(***************************************************************************)
EXTENDS Migrations

Files == <<"0001_create_stations_table.sql", "0003_create_station_routes_table.sql">>

FileObjects == <<<<"stations">>, <<"station_routes", "unique_station_route_per_mode">>>>

TablesAndIndexes == {"stations", "station_routes", "unique_station_route_per_mode"}
=============================================================================
