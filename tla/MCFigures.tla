----------------------------- MODULE MCFigures ------------------------------
(***************************************************************************)
(* An instance of Figures for TLC.                                         *)
(***************************************************************************)
EXTENDS Figures, TLC

At(year, day, second) == (NewYear(year) + day - 1) * SecondsPerDay + second

(* The last second of the Thursday that ends a year of 53 weeks and the    *)
(* first of the next, the last second of the Sunday of that week; a Monday *)
(* of 2024-W01, from which 96 days are 15.25 EUR, for two rides 7.62 each, *)
(* the even one of two cents; and the last Monday of 2024 and the          *)
(* Wednesday after it, both in 2025-W01.                                   *)
Moments ==
    {At(2020, 366, 86399), At(2021, 1, 0), At(2021, 3, 86399), At(2024, 1, 60),
     At(2024, 96, 0), At(2024, 365, 0), At(2025, 1, 0)}

\* The first ride took 754 s, the second no time, the third went back in time.
Seconds  == <<754, 0, -60>>
Stations == <<<<"a", "b">>, <<"b", "a">>, <<"a", "b">>>>
Minutes  == <<12, 0, 1>>

RideRow(id, checkout) ==
    [checkout |-> checkout, checkin |-> checkout + Seconds[id],
     duration |-> Minutes[id], from |-> Stations[id][1], to |-> Stations[id][2]]

RideTables ==
    UNION {{[r \in ids |-> RideRow(r, checkout[r])] : checkout \in [ids -> Moments]} :
              ids \in SUBSET (1..3)}

Route(meters, seconds) == [distance_meters |-> meters, duration_seconds |-> seconds]

\* No routes; one for both modes, and one for the other mode only; all.
RouteTables ==
    {<<>>,
     (<<"a", "b", Bike>> :> Route(30014, 6005)) @@ (<<"a", "b", "foot">> :> Route(25000, 18000))
       @@ (<<"b", "a", "foot">> :> Route(24000, 17000)),
     (<<"a", "b", Bike>> :> Route(30014, 6005)) @@ (<<"b", "a", Bike>> :> Route(33007, 6500))}

SomeTables ==
    {[rides |-> content, routes |-> row, observed |-> DOMAIN content \cap {1, 3}] :
        content \in RideTables, row \in RouteTables}
=============================================================================
