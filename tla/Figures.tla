------------------------------ MODULE Figures -------------------------------
(***************************************************************************)
(* What the API computes from the tables of rides: the list (rides/        *)
(* repository.go All, resource.go), the summary (summary.go) and the cost  *)
(* (cost.go), whose loop is a step a row.  Each is one SELECT, so each     *)
(* sees one state of the tables, and here all three see the same.          *)
(*                                                                         *)
(* A time is the number of seconds since Monday, 2001-01-01 in UTC, the    *)
(* first day of the calendar's cycle of 400 years; an amount is in cents.  *)
(* The two columns of station_routes are in tenths of a meter and of a     *)
(* second, which is how exact OSRM's answers are, and so is a sum of them. *)
(* Every other NullFloat is an integer number of hundredths or Null.       *)
(* Columns that are only copied are left out.                              *)
(***************************************************************************)
EXTENDS Integers, FiniteSets, Sequences, SequencesExt

CONSTANTS
    Tables,   \* the contents of the tables, each [rides, routes, observed]
    Null,
    Unasked

Bike == "bike"

ASSUME FiguresAssumption ==
    /\ Null \notin Int
    /\ \A tables \in Tables :
          /\ IsFiniteSet(DOMAIN tables.rides) /\ DOMAIN tables.rides \subseteq Int
          /\ \A r \in DOMAIN tables.rides :
                /\ tables.rides[r].checkout \in Nat
                /\ tables.rides[r].checkin \in Int
                /\ tables.rides[r].duration \in Int
          /\ \A key \in DOMAIN tables.routes : tables.routes[key].distance_meters \in Int

VARIABLES
    rides,     \* rides[id]: the row of a ride
    routes,    \* routes[<<from, to, mode>>]: the row of station_routes
    observed,  \* the rides with a row in weather_records
    list,      \* the answer to GET /rides
    summary,   \* the answer to GET /rides/summary
    cost,      \* the answer to GET /rides/cost
    times,     \* checkoutTimes
    seen,      \* how many of them the loop has gone through
    first,
    last,
    rideDays,
    rideWeeks

tables   == <<rides, routes, observed>>
loopVars == <<times, seen, first, last, rideDays, rideWeeks>>
vars     == <<tables, list, summary, cost, loopVars>>

Init ==
    /\ \E content \in Tables :
          /\ rides = content.rides
          /\ routes = content.routes
          /\ observed = content.observed
    /\ list = Unasked /\ summary = Unasked /\ cost = Unasked
    /\ times = <<>> /\ seen = 0
    /\ first = 0 /\ last = 0
    /\ rideDays = {} /\ rideWeeks = {}

-----------------------------------------------------------------------------
(***************************************************************************)
(* The calendar and the rounding.                                          *)
(***************************************************************************)
SecondsPerDay == 86400

Day(time)        == time \div SecondsPerDay
startOfDay(time) == Day(time) * SecondsPerDay

\* The first day of a year, the year of a day, the Thursday of its week.
NewYear(year) ==
    LET n == year - 2001
    IN  365 * n + (n \div 4) - (n \div 100) + (n \div 400)

YearOf(day) ==
    CHOOSE year \in 2001..(2001 + day \div 365) :
        NewYear(year) <= day /\ day < NewYear(year + 1)

Thursday(day) == 7 * (day \div 7) + 3

\* Mutant of ISOWeek: the year is that of the day.
CalendarWeek(day) ==
    <<YearOf(day), (Thursday(day) - NewYear(YearOf(Thursday(day)))) \div 7 + 1>>

\* A week belongs to the year of its Thursday.
ISOWeek(day) ==
    LET year == YearOf(Thursday(day))
    IN  <<year, (Thursday(day) - NewYear(year)) \div 7 + 1>>

\* The hundredths that a quotient may be rounded to: halfway between two of
\* them, its float is above or below.
Nearest(numerator, denominator) ==
    LET below == numerator \div denominator
        twice == 2 * (numerator - below * denominator)
    IN  (IF twice <= denominator THEN {below} ELSE {})
          \cup (IF twice >= denominator THEN {below + 1} ELSE {})

\* Mutant of Money: halfway, it rounds up.
HalfUpMoney(numerator, denominator) ==
    {(2 * numerator + denominator) \div (2 * denominator)}

(* Money of a quotient.  One that is halfway and an odd number of eighths  *)
(* is exact as a float, and the even hundredth is taken.                   *)
Money(numerator, denominator) ==
    LET near == Nearest(numerator, denominator)
    IN  IF Cardinality(near) = 2 /\ (2 * (numerator \div denominator) + 1) % 25 = 0
        THEN {hundredths \in near : hundredths % 2 = 0}
        ELSE near

-----------------------------------------------------------------------------
(***************************************************************************)
(* The list.                                                               *)
(***************************************************************************)
\* cachedRouteColumn: at most one row, by the unique index.
CachedRoute(row, column) ==
    IF <<row.from, row.to, Bike>> \in DOMAIN routes
    THEN routes[<<row.from, row.to, Bike>>][column]
    ELSE Null

Distance(row) == CachedRoute(row, "distance_meters")

ActualDurationSeconds(row) == row.checkin - row.checkout

\* Mutant of Speeds: it divides by the Duration field, in whole minutes.
SpeedsByMinute(row) ==
    IF Distance(row) = Null \/ row.duration <= 0
    THEN {Null}
    ELSE Nearest(Distance(row) * 36, row.duration * 60)

\* speedKmh: Money of a quotient that is never known to be exact.
Speeds(row) ==
    IF Distance(row) = Null \/ ActualDurationSeconds(row) <= 0
    THEN {Null}
    ELSE Nearest(Distance(row) * 36, ActualDurationSeconds(row))

\* durationVsExpectedSeconds
DurationVsExpected(row) ==
    LET expected == CachedRoute(row, "duration_seconds")
    IN  IF expected = Null THEN Null ELSE ActualDurationSeconds(row) * 100 - expected * 10

\* NewResource
Resource(id, speed) ==
    LET row == rides[id]
    IN  [ride_id        |-> id,
         duration       |-> row.duration,
         checkout       |-> row.checkout,
         distance       |-> Distance(row),
         speed          |-> speed,
         actualDuration |-> ActualDurationSeconds(row),
         versusExpected |-> DurationVsExpected(row),
         weather        |-> id \in observed]

\* ORDER BY checkout_time DESC, ride_id DESC
Precedes(a, b) ==
    \/ rides[a].checkout > rides[b].checkout
    \/ rides[a].checkout = rides[b].checkout /\ a > b

\* Mutant of Joined: an inner join.
InnerJoined == observed

\* The LEFT JOIN has a row for each ride, by the unique index of the other.
Joined == DOMAIN rides

\* The orders in which a SELECT may return some rows.
Orders(ids) ==
    {order \in [1..Cardinality(ids) -> ids] : \A r \in ids : \E i \in DOMAIN order : order[i] = r}

\* All and Index
Index ==
    /\ list = Unasked
    /\ \E order \in Orders(Joined), speed \in [Joined -> UNION {Speeds(rides[r]) : r \in Joined}] :
          /\ \A i, k \in DOMAIN order : i < k => Precedes(order[i], order[k])
          /\ \A r \in Joined : speed[r] \in Speeds(rides[r])
          /\ list' = [i \in DOMAIN order |-> Resource(order[i], speed[order[i]])]
    /\ UNCHANGED <<tables, summary, cost, loopVars>>

-----------------------------------------------------------------------------
(***************************************************************************)
(* The summary.  COUNT, SUM, MAX and MIN leave NULL out and AVG divides by *)
(* the number of the others; without any, all but COUNT is NULL.           *)
(***************************************************************************)
Total(ids, column) == MapThenSumSet(LAMBDA r : column[r], ids)

Averages(ids, column) ==
    IF ids = {} THEN {Null} ELSE Money(100 * Total(ids, column), Cardinality(ids))

\* Of tenths, whose sum is never known to be exact.
AveragesOfTenths(ids, column) ==
    IF ids = {} THEN {Null} ELSE Nearest(10 * Total(ids, column), Cardinality(ids))

Summary ==
    LET ids       == DOMAIN rides
        duration  == [r \in ids |-> rides[r].duration]
        distance  == [r \in ids |-> Distance(rides[r])]
        routed    == {r \in ids : distance[r] # Null}
        OrNull(set, value) == IF set = {} THEN Null ELSE value
    IN  /\ summary = Unasked
        /\ \E perRide \in Averages(ids, duration),
              perRouted \in AveragesOfTenths(routed, distance) :
              summary' = [total           |-> Cardinality(ids),
                          totalDuration   |-> OrNull(ids, Total(ids, duration)),
                          averageDuration |-> perRide,
                          longest         |-> OrNull(ids, Max(Range(duration))),
                          shortest        |-> OrNull(ids, Min(Range(duration))),
                          totalDistance   |-> OrNull(routed, Total(routed, distance)),
                          averageDistance |-> perRouted]
        /\ UNCHANGED <<tables, list, cost, loopVars>>

-----------------------------------------------------------------------------
(***************************************************************************)
(* The cost: Calculate.                                                    *)
(***************************************************************************)
\* CheckoutTimes, and emptyCost when there are none.
CheckoutTimes ==
    /\ cost = Unasked /\ times = <<>>
    /\ IF DOMAIN rides = {}
       THEN cost' = [total |-> 0] /\ UNCHANGED loopVars
       ELSE /\ \E order \in Orders(DOMAIN rides) :
                  /\ times' = [i \in DOMAIN order |-> rides[order[i]].checkout]
                  /\ first' = rides[order[1]].checkout
                  /\ last' = rides[order[1]].checkout
            /\ UNCHANGED <<cost, seen, rideDays, rideWeeks>>
    /\ UNCHANGED <<tables, list, summary>>

\* The body of the loop, for one time.
Row ==
    /\ cost = Unasked /\ seen < Len(times)
    /\ LET checkoutTime == times[seen + 1]
       IN  /\ first' = IF checkoutTime < first THEN checkoutTime ELSE first
           /\ last' = IF checkoutTime > last THEN checkoutTime ELSE last
           /\ rideDays' = rideDays \cup {Day(checkoutTime)}
           /\ rideWeeks' = rideWeeks \cup {ISOWeek(Day(checkoutTime))}
    /\ seen' = seen + 1
    /\ UNCHANGED <<tables, list, summary, cost, times>>

AnnualSubscriptionPrice == 5800
DaysPerYear             == 365
DayPassPrice            == 500
WeekPassPrice           == 1200

\* Mutant of DateRangeDays: the hours between the rides themselves.
RangeOfHours(from, to) == (to - from) \div SecondsPerDay + 1

DateRangeDays(from, to) == (startOfDay(to) - startOfDay(from)) \div SecondsPerDay + 1

\* A difference of two amounts in cents needs no rounding.
Calculate ==
    LET range  == DateRangeDays(first, last)
        day    == Cardinality(rideDays) * DayPassPrice
        week   == Cardinality(rideWeeks) * WeekPassPrice
    IN  /\ cost = Unasked /\ times # <<>> /\ seen = Len(times)
        /\ \E prorated \in Money(AnnualSubscriptionPrice * range, DaysPerYear) :
              \E perRide \in Money(prorated, Len(times)) :
                 cost' = [total         |-> Len(times),
                          firstRideDate |-> Day(first),
                          lastRideDate  |-> Day(last),
                          range         |-> range,
                          prorated      |-> prorated,
                          perRide       |-> perRide,
                          day           |-> day,
                          week          |-> week,
                          savedDay      |-> day - prorated,
                          savedWeek     |-> week - prorated]
        /\ UNCHANGED <<tables, list, summary, loopVars>>

-----------------------------------------------------------------------------
\* The bound: each request is made once.
Next == Index \/ Summary \/ CheckoutTimes \/ Row \/ Calculate

Spec == Init /\ [][Next]_vars

Known(answer) == answer # Unasked

Priced == Known(cost) /\ DOMAIN rides # {}

Checkouts == {rides[r].checkout : r \in DOMAIN rides}

(* In whatever order the rows come and wherever days, weeks and years      *)
(* begin: every ride lies in the period, whose days are counted with both  *)
(* ends, a day with rides costs one day pass, and a week from Monday to    *)
(* Sunday with rides one week pass, also around New Year (cost.go:53-85).  *)
PeriodAndPasses ==
    Priced =>
        LET days  == {Day(time) : time \in Checkouts}
            weeks == {day \div 7 : day \in days}
        IN  /\ cost.firstRideDate \in days /\ cost.lastRideDate \in days
            /\ \A day \in days : cost.firstRideDate <= day /\ day <= cost.lastRideDate
            /\ cost.range = cost.lastRideDate - cost.firstRideDate + 1
            /\ cost.day = 500 * Cardinality(days)
            /\ cost.week = 1200 * Cardinality(weeks)

\* An amount of cents that, divided by n, is halfway between two cents at
\* an odd number of eighths of a euro.
OddEighths(amount, n) ==
    LET odd == (2 * amount) \div (25 * n)
    IN  odd * (25 * n) = 2 * amount /\ odd % 2 = 1

(* Though rounded twice, the prices are those of 58 EUR a year: the        *)
(* prorated price is within half a cent, that of a ride within half a cent *)
(* and its share of the other, and each saving and the prorated price add  *)
(* up to the passes.  "Values that really are an exact midpoint, such as   *)
(* 0.125, round to the even digit" (cost.go:77-96, round.go:7-10).         *)
PricesAddUp ==
    Priced =>
        LET exact == 5800 * cost.range   \* in cents, times 365
            Within(a, b, bound) == 2 * (a - b) <= bound /\ 2 * (b - a) <= bound
        IN  /\ Within(365 * cost.prorated, exact, 365)
            /\ Within(365 * cost.total * cost.perRide, exact, 365 * (cost.total + 1))
            /\ OddEighths(cost.prorated, cost.total) => cost.perRide % 2 = 0
            /\ cost.savedDay + cost.prorated = cost.day
            /\ cost.savedWeek + cost.prorated = cost.week

Entries == DOMAIN list

\* The mean of a sum is in hundredths, and unit of them are one of the sum.
Near(mean, sum, n, unit) ==
    2 * (mean * n - unit * sum) \in -n..n

DurationsAgree ==
    LET duration == [i \in Entries |-> list[i].duration]
    IN  IF Entries = {}
        THEN /\ summary.totalDuration = Null /\ summary.averageDuration = Null
             /\ summary.longest = Null /\ summary.shortest = Null
        ELSE /\ summary.totalDuration = Total(Entries, duration)
             /\ Near(summary.averageDuration, summary.totalDuration, Len(list), 100)
             /\ \A i \in Entries : duration[i] \in summary.shortest..summary.longest
             /\ \E i \in Entries : duration[i] = summary.shortest
             /\ \E i \in Entries : duration[i] = summary.longest

DistancesAgree ==
    LET distance == [i \in Entries |-> list[i].distance]
        routed   == {i \in Entries : distance[i] # Null}
    IN  IF routed = {}
        THEN summary.totalDistance = Null /\ summary.averageDistance = Null
        ELSE /\ summary.totalDistance = Total(routed, distance)
             /\ Near(summary.averageDistance, summary.totalDistance, Cardinality(routed), 10)

SpeedAgrees(entry) ==
    /\ entry.speed # Null <=> entry.distance # Null /\ entry.actualDuration > 0
    /\ entry.speed # Null => Near(entry.speed, entry.distance, entry.actualDuration, 36)

(* The list and the summary tell the same story: every ride is listed      *)
(* once, the newest first, the totals, averages and extremes are those of  *)
(* the list, and NULL where it has nothing to add up, and an entry has a   *)
(* speed exactly when its distance is known and its ride took time, to     *)
(* which the three then agree (repository.go All, summary.go,              *)
(* resource.go:33-77).                                                     *)
ListAddsUp ==
    Known(list) /\ Known(summary) =>
        /\ summary.total = Len(list)
        /\ \A i, k \in Entries : i < k =>
              /\ list[i].ride_id # list[k].ride_id
              /\ list[i].checkout >= list[k].checkout
        /\ DurationsAgree
        /\ DistancesAgree
        /\ \A i \in Entries : SpeedAgrees(list[i])
=============================================================================
