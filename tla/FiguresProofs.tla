---------------------------- MODULE FiguresProofs ---------------------------
(***************************************************************************)
(* The period, the passes and the prices of the cost are right for every   *)
(* table of rides and in every order of its rows: the loop's invariant,    *)
(* and what the calendar must give for the keys of weeks to count weeks.   *)
(* And the totals and averages of the summary are those of the list.       *)
(***************************************************************************)
EXTENDS Figures, FiniteTheorems

-----------------------------------------------------------------------------
(***************************************************************************)
(* The calendar.                                                           *)
(***************************************************************************)
(* Every day from 2001 on lies in a year, and YearOf looks far enough.     *)
LEMMA EveryDayHasAYear ==
  ASSUME NEW day \in Nat
  PROVE  /\ YearOf(day) \in Nat
         /\ NewYear(YearOf(day)) <= day
         /\ day < NewYear(YearOf(day) + 1)
  <1> DEFINE n == (400 * day) \div 146097   \* 146097 days in 400 years
             F(k) == NewYear(2001 + k)
  <1>1. n \in Nat /\ 146097 * n <= 400 * day /\ 400 * day < 146097 * n + 146097
      OBVIOUS
  <1>2. \A k \in Int : F(k) = 365 * k + (k \div 4) - (k \div 100) + (k \div 400)
      BY DEF NewYear
  <1>3. \A k \in Int : /\ 400 * F(k) <= 146097 * k + 396
                       /\ 400 * F(k) >= 146097 * k - 699
                       /\ F(k) \in Int
    <2> TAKE k \in Int
    <2> DEFINE a == k \div 4
               b == k \div 100
               c == k \div 400
    <2>1. a \in Int /\ 4 * a <= k /\ k <= 4 * a + 3
        OBVIOUS
    <2>2. b \in Int /\ 100 * b <= k /\ k <= 100 * b + 99
        OBVIOUS
    <2>3. c \in Int /\ 400 * c <= k /\ k <= 400 * c + 399
        OBVIOUS
    <2>4. F(k) = 365 * k + a - b + c
        BY <1>2
    <2> HIDE DEF a, b, c, F
    <2> QED
        BY <2>1, <2>2, <2>3, <2>4
  <1>4. F(0) = 0 /\ (\A k \in Nat : F(k) >= 365 * k)
    <2>1. \A k \in Nat : k \div 4 >= k \div 100 /\ k \div 400 >= 0
        OBVIOUS
    <2> QED
        BY <1>2, <2>1
  <1> HIDE DEF n, F
  <1>5. PICK k \in Nat : F(k) <= day /\ day < F(k + 1)
    <2>1. day < F(n + 2)
        BY <1>1, <1>3
    <2>2. n # 0 => F(n - 1) <= day
        BY <1>1, <1>3
    <2>3. CASE day < F(n)
      <3>1. n # 0
          BY <1>4, <2>3
      <3>2. n - 1 \in Nat /\ (n - 1) + 1 = n
          BY <1>1, <3>1
      <3> QED
          BY <2>2, <2>3, <3>1, <3>2
    <2>4. CASE F(n) <= day /\ day < F(n + 1)
        BY <1>1, <2>4
    <2>5. CASE F(n + 1) <= day
      <3>1. n + 1 \in Nat /\ (n + 1) + 1 = n + 2
          BY <1>1
      <3> QED
          BY <2>1, <2>5, <3>1
    <2>6. F(n) \in Int /\ F(n + 1) \in Int
        BY <1>1, <1>3
    <2> QED
        BY <2>3, <2>4, <2>5, <2>6
  <1>6. k <= day \div 365
    <2>1. 365 * k <= day
        BY <1>3, <1>4, <1>5
    <2> QED
        BY <2>1
  <1>7. \E year \in 2001..(2001 + day \div 365) :
            NewYear(year) <= day /\ day < NewYear(year + 1)
    <2>1. 2001 + k \in 2001..(2001 + day \div 365) /\ (2001 + k) + 1 = 2001 + (k + 1)
        BY <1>6
    <2>2. NewYear(2001 + k) <= day /\ day < NewYear((2001 + k) + 1)
        BY <1>5, <2>1 DEF F
    <2> QED
        BY <2>1, <2>2
  <1>8. /\ YearOf(day) \in 2001..(2001 + day \div 365)
        /\ NewYear(YearOf(day)) <= day
        /\ day < NewYear(YearOf(day) + 1)
      BY <1>7 DEF YearOf
  <1> QED
      BY <1>8

(* The key of the m-th week, whose Thursday is the day 7 * m + 3. *)
WeekOf(thursday) ==
    <<YearOf(thursday), (thursday - NewYear(YearOf(thursday))) \div 7 + 1>>

WeekKey(m) == WeekOf(7 * m + 3)

LEMMA KeyOfADay ==
  ASSUME NEW day \in Nat
  PROVE  ISOWeek(day) = WeekKey(day \div 7) /\ day \div 7 \in Nat
  <1>1. day \div 7 \in Nat
      OBVIOUS
  <1>2. PICK m \in Nat : m = day \div 7
      BY <1>1
  <1>3. Thursday(day) = 7 * m + 3
      BY <1>2 DEF Thursday
  <1>4. ISOWeek(day) = WeekOf(Thursday(day))
      BY DEF ISOWeek, WeekOf
  <1>5. WeekOf(Thursday(day)) = WeekKey(m)
      BY <1>3, Zenon DEF WeekKey
  <1> QED
      BY <1>2, <1>4, <1>5

LEMMA KeysAreWeeks ==
  ASSUME NEW m \in Nat, NEW k \in Nat, WeekKey(m) = WeekKey(k)
  PROVE  m = k
  <1>1. PICK s \in Nat : s = 7 * m + 3
      OBVIOUS
  <1>2. PICK t \in Nat : t = 7 * k + 3
      OBVIOUS
  <1>3. WeekOf(s) = WeekOf(t)
      BY <1>1, <1>2 DEF WeekKey
  <1>4. PICK year : year = YearOf(s)
      OBVIOUS
  <1>5. YearOf(t) = year
      BY <1>3, <1>4 DEF WeekOf
  <1>6. PICK start \in Int : start = NewYear(year)
    <2>1. year \in Nat
        BY <1>4, EveryDayHasAYear
    <2> QED
        BY <2>1 DEF NewYear
  <1>7. (s - start) \div 7 + 1 = (t - start) \div 7 + 1
      BY <1>3, <1>4, <1>5, <1>6 DEF WeekOf
  <1> QED
      BY <1>1, <1>2, <1>7

(* As many keys as weeks: what len(rideWeeks) counts. *)
LEMMA KeysCountWeeks ==
  ASSUME NEW days \in SUBSET Nat, IsFiniteSet({day \div 7 : day \in days})
  PROVE  Cardinality({ISOWeek(day) : day \in days}) = Cardinality({day \div 7 : day \in days})
  <1> DEFINE weeks == {day \div 7 : day \in days}
             keys  == {ISOWeek(day) : day \in days}
             f     == [m \in weeks |-> WeekKey(m)]
  <1>1. weeks \subseteq Nat
      BY KeyOfADay
  <1>2. f \in [weeks -> keys]
    <2> SUFFICES ASSUME NEW m \in weeks
                 PROVE  WeekKey(m) \in keys
        OBVIOUS
    <2>1. PICK day \in days : m = day \div 7
        OBVIOUS
    <2> QED
        BY <2>1, KeyOfADay
  <1>3. \A m, k \in weeks : f[m] = f[k] => m = k
      BY <1>1, KeysAreWeeks
  <1>4. \A key \in keys : \E m \in weeks : f[m] = key
      BY KeyOfADay
  <1>5. f \in Bijection(weeks, keys)
      BY <1>2, <1>3, <1>4 DEF Bijection, Injection, Surjection, IsInjective
  <1> HIDE DEF weeks, keys, f
  <1>6. ExistsBijection(weeks, keys)
      BY <1>5 DEF ExistsBijection
  <1>7. Cardinality(keys) = Cardinality(weeks)
      BY <1>6, FS_Bijection DEF weeks
  <1> QED
      BY <1>7 DEF weeks, keys

-----------------------------------------------------------------------------
(***************************************************************************)
(* The loop.                                                               *)
(***************************************************************************)
Days == {Day(time) : time \in Checkouts}

TablesOK ==
    /\ IsFiniteSet(DOMAIN rides)
    /\ Checkouts \subseteq Nat

TimesOK ==
    times # <<>> =>
        /\ times \in Seq(Nat) /\ Len(times) > 0
        /\ \A i \in 1..Len(times) : times[i] \in Checkouts
        /\ \A time \in Checkouts : \E i \in 1..Len(times) : times[i] = time

LoopOK ==
    /\ seen \in 0..Len(times)
    /\ times # <<>> => first \in Checkouts /\ last \in Checkouts
    /\ \A i \in 1..seen : first <= times[i] /\ times[i] <= last
    /\ rideDays = {Day(times[i]) : i \in 1..seen}
    /\ rideWeeks = {ISOWeek(Day(times[i])) : i \in 1..seen}

CostInv == TablesOK /\ TimesOK /\ LoopOK /\ PeriodAndPasses

LEMMA InitCost == Init => CostInv
  <1> SUFFICES ASSUME Init
               PROVE  CostInv
      OBVIOUS
  <1>1. TablesOK
      BY FiguresAssumption DEF Init, FiguresAssumption, TablesOK, Checkouts
  <1> QED
      BY <1>1 DEF Init, CostInv, TimesOK, LoopOK, PeriodAndPasses, Priced, Known

LEMMA CheckoutTimesKeepsCost ==
  ASSUME CostInv, CheckoutTimes
  PROVE  CostInv'
  <1>1. TablesOK' /\ Checkouts' = Checkouts
      BY DEF CheckoutTimes, CostInv, TablesOK, Checkouts, tables
  <1>2. CASE DOMAIN rides = {}
    <2>1. UNCHANGED loopVars /\ DOMAIN rides' = {}
        BY <1>2 DEF CheckoutTimes, tables
    <2>2. TimesOK' /\ LoopOK'
        BY <1>1, <2>1 DEF CostInv, TimesOK, LoopOK, loopVars
    <2>3. PeriodAndPasses'
        BY <2>1 DEF PeriodAndPasses, Priced
    <2> QED
        BY <1>1, <2>2, <2>3 DEF CostInv
  <1>3. CASE DOMAIN rides # {}
    <2>1. PICK order \in Orders(DOMAIN rides) :
              /\ times' = [i \in DOMAIN order |-> rides[order[i]].checkout]
              /\ first' = rides[order[1]].checkout
              /\ last' = rides[order[1]].checkout
        BY <1>3 DEF CheckoutTimes
    <2>2. cost' = cost /\ seen' = seen /\ rideDays' = rideDays /\ rideWeeks' = rideWeeks
          /\ cost = Unasked /\ times = <<>>
        BY <1>3 DEF CheckoutTimes
    <2> DEFINE N == Cardinality(DOMAIN rides)
    <2>3. N \in Nat /\ N > 0
      <3>1. N \in Nat /\ N # 0
          BY <1>3, FS_CardinalityType, FS_EmptySet DEF CostInv, TablesOK
      <3> QED
          BY <3>1
    <2>4. order \in [1..N -> DOMAIN rides]
          /\ \A r \in DOMAIN rides : \E i \in 1..N : order[i] = r
        BY <2>1 DEF Orders
    <2>5. \A i \in 1..N : rides[order[i]].checkout \in Checkouts
        BY <2>4 DEF Checkouts
    <2>6. times' = [i \in 1..N |-> rides[order[i]].checkout]
        BY <2>1, <2>4
    <2> HIDE DEF N
    <2>7. times' \in [1..N -> Nat]
        BY <2>5, <2>6 DEF CostInv, TablesOK
    <2>8. times' \in Seq(Nat) /\ Len(times') = N
        BY <2>3, <2>7
    <2>9. TimesOK'
      <3>1. \A i \in 1..N : times'[i] \in Checkouts
          BY <2>5, <2>6
      <3>2. \A time \in Checkouts : \E i \in 1..N : times'[i] = time
          BY <2>4, <2>6 DEF Checkouts
      <3> QED
          BY <1>1, <2>3, <2>8, <3>1, <3>2 DEF TimesOK
    <2>10. LoopOK'
      <3>1. seen = 0
          BY <2>2 DEF CostInv, LoopOK
      <3>2. rideDays' = {} /\ rideWeeks' = {}
          BY <2>2, <3>1 DEF CostInv, LoopOK
      <3>3. first' \in Checkouts /\ last' \in Checkouts
          BY <2>1, <2>3, <2>5
      <3> QED
          BY <1>1, <2>2, <2>3, <2>8, <3>1, <3>2, <3>3 DEF LoopOK
    <2>11. PeriodAndPasses'
        BY <2>2 DEF PeriodAndPasses, Priced, Known
    <2> QED
        BY <1>1, <2>9, <2>10, <2>11 DEF CostInv
  <1> QED
      BY <1>2, <1>3

LEMMA RowKeepsCost ==
  ASSUME CostInv, Row
  PROVE  CostInv'
  <1>1. TablesOK' /\ Checkouts' = Checkouts /\ TimesOK' /\ times' = times
      BY DEF Row, CostInv, TablesOK, TimesOK, Checkouts, tables
  <1>2. seen \in Nat /\ seen' = seen + 1 /\ Len(times) \in Nat /\ seen' \in 1..Len(times)
    <2>1. times # <<>>
        BY DEF Row, CostInv, LoopOK
    <2> QED
        BY <2>1 DEF Row, CostInv, LoopOK, TimesOK
  <1>3. times # <<>> /\ times[seen + 1] \in Checkouts
    <2>1. times # <<>>
        BY <1>2
    <2> QED
        BY <1>2, <2>1 DEF CostInv, TimesOK
  <1>4. first \in Nat /\ last \in Nat /\ first \in Checkouts /\ last \in Checkouts
        /\ times[seen + 1] \in Nat /\ \A i \in 1..Len(times) : times[i] \in Nat
      BY <1>3 DEF CostInv, LoopOK, TablesOK, TimesOK
  <1>5. first' \in Checkouts /\ last' \in Checkouts
        /\ first' <= first /\ last <= last'
        /\ first' <= times[seen + 1] /\ times[seen + 1] <= last'
        /\ first' \in Nat /\ last' \in Nat
      BY <1>3, <1>4 DEF Row
  <1>6. 1..(seen + 1) = 1..seen \cup {seen + 1}
      BY <1>2
  <1>7. \A i \in 1..(seen + 1) : first' <= times[i] /\ times[i] <= last'
    <2> TAKE i \in 1..(seen + 1)
    <2>1. CASE i = seen + 1
        BY <1>5, <2>1
    <2>2. CASE i \in 1..seen
      <3>1. first <= times[i] /\ times[i] <= last /\ times[i] \in Nat
          BY <1>2, <1>4, <2>2 DEF CostInv, LoopOK
      <3> QED
          BY <1>4, <1>5, <3>1
    <2> QED
        BY <1>6, <2>1, <2>2
  <1>8. rideDays' = {Day(times[i]) : i \in 1..(seen + 1)}
      BY <1>6 DEF Row, CostInv, LoopOK
  <1>9. rideWeeks' = {ISOWeek(Day(times[i])) : i \in 1..(seen + 1)}
      BY <1>6 DEF Row, CostInv, LoopOK
  <1>10. LoopOK'
      BY <1>1, <1>2, <1>5, <1>7, <1>8, <1>9 DEF LoopOK
  <1>11. PeriodAndPasses'
      BY DEF Row, PeriodAndPasses, Priced, Known
  <1> QED
      BY <1>1, <1>10, <1>11 DEF CostInv

LEMMA WeeksAreFinite ==
  ASSUME TablesOK
  PROVE  Days \in SUBSET Nat /\ IsFiniteSet({day \div 7 : day \in Days})
  <1> DEFINE weeks == {day \div 7 : day \in Days}
             f == [r \in DOMAIN rides |-> Day(rides[r].checkout) \div 7]
  <1>1. Days \in SUBSET Nat
    <2>1. \A time \in Nat : Day(time) \in Nat
        BY DEF Day, SecondsPerDay
    <2> QED
        BY <2>1 DEF TablesOK, Days
  <1>2. f \in [DOMAIN rides -> weeks] /\ \A week \in weeks : \E r \in DOMAIN rides : f[r] = week
      BY DEF Days, Checkouts
  <1>3. f \in Surjection(DOMAIN rides, weeks)
      BY <1>2 DEF Surjection
  <1> HIDE DEF weeks, f
  <1>4. IsFiniteSet(weeks)
      BY <1>3, FS_Surjection DEF TablesOK
  <1> QED
      BY <1>1, <1>4 DEF weeks

LEMMA DaysOfDifference ==
  ASSUME NEW from \in Nat, NEW to \in Nat
  PROVE  DateRangeDays(from, to) = Day(to) - Day(from) + 1
  <1> DEFINE a == Day(from)
             b == Day(to)
  <1>1. a \in Int /\ b \in Int
      BY DEF Day, SecondsPerDay
  <1>2. DateRangeDays(from, to) = (b * 86400 - a * 86400) \div 86400 + 1
      BY DEF DateRangeDays, startOfDay, SecondsPerDay
  <1> HIDE DEF a, b
  <1>3. (b * 86400 - a * 86400) \div 86400 = b - a
      BY <1>1
  <1> QED
      BY <1>2, <1>3 DEF a, b

LEMMA RanThrough ==
  ASSUME CostInv, Calculate
  PROVE  Days = rideDays /\ {ISOWeek(day) : day \in Days} = rideWeeks
  BY DEF Calculate, CostInv, TimesOK, LoopOK, Days

LEMMA CountsAreNumbers ==
  ASSUME CostInv, Calculate
  PROVE  Cardinality(rideDays) \in Int /\ Cardinality(rideWeeks) \in Int
  <1>1. IsFiniteSet({day \div 7 : day \in Days}) /\ Days \in SUBSET Nat
      BY WeeksAreFinite DEF CostInv
  <1>2. Cardinality(rideWeeks) = Cardinality({day \div 7 : day \in Days})
      BY <1>1, RanThrough, KeysCountWeeks
  <1>3. IsFiniteSet(Days)
    <2> DEFINE f == [r \in DOMAIN rides |-> Day(rides[r].checkout)]
    <2>1. f \in [DOMAIN rides -> Days] /\ \A day \in Days : \E r \in DOMAIN rides : f[r] = day
        BY DEF Days, Checkouts
    <2>2. f \in Surjection(DOMAIN rides, Days)
        BY <2>1 DEF Surjection
    <2> HIDE DEF f
    <2> QED
        BY <2>2, FS_Surjection DEF CostInv, TablesOK
  <1> QED
      BY <1>1, <1>2, <1>3, RanThrough, FS_CardinalityType

LEMMA FirstAndLast ==
  ASSUME CostInv, Calculate
  PROVE  first \in Nat /\ last \in Nat
  <1>1. times # <<>>
      BY DEF Calculate
  <1> QED
      BY <1>1 DEF CostInv, LoopOK, TablesOK

LEMMA CalculateKeepsCost ==
  ASSUME CostInv, Calculate
  PROVE  CostInv'
  <1>1. UNCHANGED <<tables, loopVars>>
      BY DEF Calculate
  <1>2. TablesOK' /\ TimesOK' /\ LoopOK' /\ Checkouts' = Checkouts
      BY <1>1 DEF CostInv, TablesOK, TimesOK, LoopOK, Checkouts, tables, loopVars
  <1>3. times # <<>> /\ seen = Len(times)
      BY DEF Calculate
  <1>4. Days = rideDays /\ {ISOWeek(day) : day \in Days} = rideWeeks
      BY RanThrough
  <1>5. first \in Nat /\ last \in Nat /\ Day(first) \in Days /\ Day(last) \in Days
      BY <1>3 DEF CostInv, LoopOK, TablesOK, Days
  <1>6. \A time \in Checkouts : time \in Nat /\ first <= time /\ time <= last
      BY <1>3 DEF CostInv, TimesOK, LoopOK, TablesOK
  <1>7. \A day \in Days : Day(first) <= day /\ day <= Day(last)
    <2>1. \A x, y \in Nat : x <= y => Day(x) <= Day(y)
        BY DEF Day, SecondsPerDay
    <2> QED
        BY <1>5, <1>6, <2>1 DEF Days
  <1>8. Cardinality(rideWeeks) = Cardinality({day \div 7 : day \in Days})
      BY <1>4, WeeksAreFinite, KeysCountWeeks DEF CostInv
  <1>9. PICK prorated, perRide :
            cost' = [total         |-> Len(times),
                     firstRideDate |-> Day(first),
                     lastRideDate  |-> Day(last),
                     range         |-> DateRangeDays(first, last),
                     prorated      |-> prorated,
                     perRide       |-> perRide,
                     day           |-> Cardinality(rideDays) * DayPassPrice,
                     week          |-> Cardinality(rideWeeks) * WeekPassPrice,
                     savedDay      |-> Cardinality(rideDays) * DayPassPrice - prorated,
                     savedWeek     |-> Cardinality(rideWeeks) * WeekPassPrice - prorated]
      BY DEF Calculate
  <1>10. /\ cost'.firstRideDate = Day(first)
         /\ cost'.lastRideDate = Day(last)
         /\ cost'.range = Day(last) - Day(first) + 1
         /\ cost'.day = Cardinality(rideDays) * 500
         /\ cost'.week = Cardinality(rideWeeks) * 1200
      BY <1>5, <1>9, DaysOfDifference DEF DayPassPrice, WeekPassPrice
  <1>11. Cardinality(rideDays) \in Int /\ Cardinality(rideWeeks) \in Int
      BY CountsAreNumbers
  <1>12. PeriodAndPasses'
    <2>1. /\ cost'.firstRideDate \in Days /\ cost'.lastRideDate \in Days
          /\ \A day \in Days : cost'.firstRideDate <= day /\ day <= cost'.lastRideDate
          /\ cost'.range = cost'.lastRideDate - cost'.firstRideDate + 1
        BY <1>5, <1>7, <1>10
    <2>2. /\ cost'.day = 500 * Cardinality(Days)
          /\ cost'.week = 1200 * Cardinality({day \div 7 : day \in Days})
        BY <1>4, <1>8, <1>10, <1>11
    <2>3. Days' = Days
        BY <1>2 DEF Days
    <2> QED
        BY <1>2, <2>1, <2>2, <2>3 DEF PeriodAndPasses, Days
  <1> QED
      BY <1>2, <1>12 DEF CostInv

LEMMA NextKeepsCost ==
  ASSUME CostInv, [Next]_vars
  PROVE  CostInv'
  <1>1. CASE Index \/ Summary \/ UNCHANGED vars
    <2>1. UNCHANGED <<tables, cost, loopVars>>
        BY <1>1 DEF Index, Summary, vars
    <2>2. rides' = rides /\ cost' = cost /\ times' = times /\ seen' = seen
          /\ first' = first /\ last' = last
          /\ rideDays' = rideDays /\ rideWeeks' = rideWeeks
        BY <2>1 DEF tables, loopVars
    <2>3. TablesOK' /\ TimesOK' /\ LoopOK'
        BY <2>2 DEF CostInv, TablesOK, TimesOK, LoopOK, Checkouts
    <2>4. PeriodAndPasses'
        BY <2>2 DEF CostInv, PeriodAndPasses, Priced, Known, Checkouts
    <2> QED
        BY <2>3, <2>4 DEF CostInv
  <1> QED
      BY <1>1, CheckoutTimesKeepsCost, RowKeepsCost, CalculateKeepsCost DEF Next

(* For every table and order of its rows, the period of the cost holds     *)
(* every ride, and days and weeks with rides are counted once each, around *)
(* New Year too (cost.go:53-85).                                           *)
THEOREM PeriodIsRight == Spec => []PeriodAndPasses
  <1>1. Init => CostInv
      BY InitCost
  <1>2. CostInv /\ [Next]_vars => CostInv'
      BY NextKeepsCost
  <1>3. CostInv => PeriodAndPasses
      BY DEF CostInv
  <1> QED
      BY <1>1, <1>2, <1>3, PTL DEF Spec

-----------------------------------------------------------------------------
(***************************************************************************)
(* The prices.                                                             *)
(***************************************************************************)
(* A hundredth is at most half of one from the quotient that it rounds. *)
LEMMA NearestIsNear ==
  ASSUME NEW a \in Int, NEW b \in Nat, b > 0, NEW c \in Nearest(a, b)
  PROVE  /\ c \in Int
         /\ 2 * (a - c * b) <= b
         /\ 2 * (c * b - a) <= b
  <1> DEFINE below == a \div b
  <1>1. below \in Int /\ below * b <= a
      OBVIOUS
  <1>3. \/ c = below /\ 2 * (a - below * b) <= b
        \/ c = below + 1 /\ 2 * (a - below * b) >= b
      BY DEF Nearest
  <1> HIDE DEF below
  <1>4. PICK product \in Int : product = below * b
      BY <1>1
  <1>5. (below + 1) * b = product + b
      BY <1>1, <1>4
  <1>6. a - (below + 1) * b = a - product - b
      BY <1>4, <1>5
  <1>7. a <= product + b
    <2>1. a < (a \div b) * b + b
        OBVIOUS
    <2> QED
        BY <1>4, <2>1 DEF below
  <1>8. CASE c = below /\ 2 * (a - below * b) <= b
      BY <1>1, <1>4, <1>8
  <1>9. CASE c = below + 1 /\ 2 * (a - below * b) >= b
    <2>1. c * b = product + b
        BY <1>5, <1>9
    <2>2. 2 * (a - product) >= b
        BY <1>4, <1>9
    <2> QED
        BY <1>1, <1>4, <1>7, <1>9, <2>1, <2>2
  <1> QED
      BY <1>3, <1>8, <1>9

LEMMA MoneyIsNear ==
  ASSUME NEW a \in Int, NEW b \in Nat, b > 0, NEW c \in Money(a, b)
  PROVE  /\ c \in Int
         /\ 2 * (a - c * b) <= b
         /\ 2 * (c * b - a) <= b
  <1>1. c \in Nearest(a, b)
      BY DEF Money
  <1> QED
      BY <1>1, NearestIsNear

LEMMA QuotientIsUnique ==
  ASSUME NEW a \in Int, NEW n \in Nat, n > 0, NEW b \in Int,
         NEW rest \in Int, 0 <= rest, rest < n, a = b * n + rest
  PROVE  a \div n = b
  <1> DEFINE q == a \div n
  <1>1. q \in Int /\ q * n <= a /\ a < q * n + n
      OBVIOUS
  <1> HIDE DEF q
  <1>2. PICK d \in Int : d = q - b
      BY <1>1
  <1>3. q * n = b * n + d * n
      BY <1>1, <1>2
  <1>4. d * n <= rest /\ rest < d * n + n
      BY <1>1, <1>3
  <1>5. ~(d >= 1)
    <2>1. d >= 1 => d * n >= n
        OBVIOUS
    <2> QED
        BY <1>4, <2>1
  <1>6. ~(d <= -1)
    <2>1. d <= -1 => d * n <= -n
        OBVIOUS
    <2> QED
        BY <1>4, <2>1
  <1> QED
      BY <1>1, <1>2, <1>5, <1>6 DEF q

LEMMA TwoNumbers ==
  ASSUME NEW b \in Int
  PROVE  Cardinality({b, b + 1}) = 2
  <1> DEFINE S == {b}
  <1>1. IsFiniteSet(S) /\ Cardinality(S) = 1
      BY FS_Singleton
  <1>2. b + 1 \notin S /\ S \cup {b + 1} = {b, b + 1}
      OBVIOUS
  <1> HIDE DEF S
  <1>3. Cardinality(S \cup {b + 1}) = Cardinality(S) + 1
      BY <1>1, <1>2, FS_AddElement
  <1> QED
      BY <1>1, <1>2, <1>3

(* At an odd number of eighths of a euro, Money takes the even cent. *)
LEMMA MoneyIsEven ==
  ASSUME NEW a \in Int, NEW n \in Nat, n > 0, OddEighths(a, n), NEW c \in Money(a, n)
  PROVE  c % 2 = 0
  <1>1. PICK q \in Int : q * (25 * n) = 2 * a /\ q % 2 = 1
    <2> DEFINE d == 25 * n
    <2>1. d \in Nat /\ d > 0 /\ 2 * a \in Int
        OBVIOUS
    <2>2. ((2 * a) \div d) * d = 2 * a /\ ((2 * a) \div d) % 2 = 1
        BY DEF OddEighths
    <2> HIDE DEF d
    <2>3. (2 * a) \div d \in Int
        BY <2>1
    <2> QED
        BY <2>2, <2>3 DEF d
  <1>2. PICK k \in Int : q = 2 * k + 1
      BY <1>1
  <1>3. PICK nk \in Int : nk = n * k
      OBVIOUS
  <1>4. 2 * a = 50 * nk + 25 * n
      BY <1>1, <1>2, <1>3
  <1>5. PICK m \in Int : n = 2 * m
    <2>1. PICK m \in Int : m = a - 25 * nk - 12 * n
        OBVIOUS
    <2>2. n = 2 * m
        BY <1>4, <2>1
    <2> QED
        BY <2>2
  <1>6. a = 25 * nk + 25 * m
      BY <1>4, <1>5
  <1> DEFINE b == 25 * k + 12
  <1>7. b \in Int /\ b * n = 25 * nk + 12 * n
      BY <1>3
  <1>8. a = b * n + m /\ 0 <= m /\ m < n
      BY <1>5, <1>6, <1>7
  <1>9. 2 * b + 1 = 25 * (2 * k + 1) /\ (2 * b + 1) % 25 = 0
      OBVIOUS
  <1> HIDE DEF b
  <1>10. a \div n = b
      BY <1>5, <1>7, <1>8, QuotientIsUnique
  <1>11. 2 * (a - b * n) = n
      BY <1>5, <1>7, <1>8
  <1>12. Nearest(a, n) = {b, b + 1}
      BY <1>10, <1>11 DEF Nearest
  <1>13. Cardinality({b, b + 1}) = 2
      BY <1>7, TwoNumbers
  <1>14. Money(a, n) = {h \in {b, b + 1} : h % 2 = 0}
      BY <1>9, <1>10, <1>12, <1>13 DEF Money
  <1> QED
      BY <1>14

LEMMA CalculateKeepsPrices ==
  ASSUME CostInv, Calculate
  PROVE  PricesAddUp'
  <1> DEFINE n     == Len(times)
             range == DateRangeDays(first, last)
             day   == Cardinality(rideDays) * DayPassPrice
             week  == Cardinality(rideWeeks) * WeekPassPrice
  <1>1. PICK prorated \in Money(5800 * range, 365) : \E perRide \in Money(prorated, n) :
            cost' = [total         |-> n,
                     firstRideDate |-> Day(first),
                     lastRideDate  |-> Day(last),
                     range         |-> range,
                     prorated      |-> prorated,
                     perRide       |-> perRide,
                     day           |-> day,
                     week          |-> week,
                     savedDay      |-> day - prorated,
                     savedWeek     |-> week - prorated]
      BY DEF Calculate, AnnualSubscriptionPrice, DaysPerYear
  <1>2. PICK perRide \in Money(prorated, n) :
            /\ cost'.total = n /\ cost'.range = range
            /\ cost'.prorated = prorated /\ cost'.perRide = perRide
            /\ cost'.day = day /\ cost'.week = week
            /\ cost'.savedDay = day - prorated /\ cost'.savedWeek = week - prorated
      BY <1>1
  <1>3. n \in Nat /\ n > 0
      BY DEF Calculate, CostInv, TimesOK
  <1>4. range \in Int /\ 5800 * range \in Int
    <2>1. first \in Nat /\ last \in Nat
        BY FirstAndLast
    <2>2. Day(first) \in Int /\ Day(last) \in Int
        BY <2>1 DEF Day, SecondsPerDay
    <2>3. range = Day(last) - Day(first) + 1
        BY <2>1, DaysOfDifference
    <2> HIDE DEF range
    <2> QED
        BY <2>2, <2>3
  <1>5. day \in Int /\ week \in Int
    <2>1. Cardinality(rideDays) \in Int /\ Cardinality(rideWeeks) \in Int
        BY CountsAreNumbers
    <2> QED
        BY <2>1 DEF DayPassPrice, WeekPassPrice
  <1> HIDE DEF n, range, day, week
  <1>6. /\ prorated \in Int
        /\ 2 * (5800 * range - prorated * 365) <= 365
        /\ 2 * (prorated * 365 - 5800 * range) <= 365
      BY <1>4, MoneyIsNear
  <1>7. /\ perRide \in Int
        /\ 2 * (prorated - perRide * n) <= n
        /\ 2 * (perRide * n - prorated) <= n
      BY <1>3, <1>6, MoneyIsNear
  <1>8. PICK all \in Int : all = perRide * n
      BY <1>3, <1>7
  <1>9. 365 * n * perRide = 365 * all
      BY <1>3, <1>7, <1>8
  <1>10. /\ 2 * (365 * all - 5800 * range) <= 365 * (n + 1)
         /\ 2 * (5800 * range - 365 * all) <= 365 * (n + 1)
      BY <1>3, <1>4, <1>6, <1>7, <1>8
  <1>11. (day - prorated) + prorated = day /\ (week - prorated) + prorated = week
      BY <1>5, <1>6
  <1>12. /\ 2 * (365 * prorated - 5800 * range) <= 365
         /\ 2 * (5800 * range - 365 * prorated) <= 365
      BY <1>4, <1>6
  <1>13. /\ 2 * (365 * n * perRide - 5800 * range) <= 365 * (n + 1)
         /\ 2 * (5800 * range - 365 * n * perRide) <= 365 * (n + 1)
      BY <1>9, <1>10
  <1>14. OddEighths(prorated, n) => perRide % 2 = 0
      BY <1>3, <1>6, MoneyIsEven
  <1>15. Priced' => (OddEighths(cost'.prorated, cost'.total) => cost'.perRide % 2 = 0)
      BY <1>2, <1>14
  <1> QED
      BY <1>2, <1>11, <1>12, <1>13, <1>15 DEF PricesAddUp

(* For every table, though the prorated price is rounded before the price  *)
(* of a ride is computed from it, each is as near to 58 EUR a year as its  *)
(* roundings allow, an exact midpoint goes to the even cent, and the       *)
(* savings add up (cost.go:77-96, round.go:7-10).                          *)
THEOREM PricesAreRight == Spec => []PricesAddUp
  <1>1. Init => CostInv /\ PricesAddUp
      BY InitCost DEF Init, PricesAddUp, Priced, Known
  <1>2. CostInv /\ PricesAddUp /\ [Next]_vars => CostInv' /\ PricesAddUp'
    <2> SUFFICES ASSUME CostInv, PricesAddUp, [Next]_vars
                 PROVE  PricesAddUp'
        BY NextKeepsCost
    <2>1. CASE Calculate
        BY <2>1, CalculateKeepsPrices
    <2>2. CASE Row
        BY <2>2 DEF Row, PricesAddUp, Priced, Known
    <2>3. CASE CheckoutTimes
      <3>1. rides' = rides /\ (DOMAIN rides = {} \/ (cost' = cost /\ cost = Unasked))
          BY <2>3 DEF CheckoutTimes, tables
      <3>2. ~Priced'
          BY <3>1 DEF Priced, Known
      <3> QED
          BY <3>2 DEF PricesAddUp
    <2>4. CASE Index \/ Summary \/ UNCHANGED vars
      <3>1. rides' = rides /\ cost' = cost
          BY <2>4 DEF Index, Summary, vars, tables
      <3> QED
          BY <3>1 DEF PricesAddUp, Priced, Known
    <2> QED
        BY <2>1, <2>2, <2>3, <2>4 DEF Next
  <1> QED
      BY <1>1, <1>2, PTL DEF Spec

-----------------------------------------------------------------------------
(***************************************************************************)
(* The list and the summary.                                               *)
(***************************************************************************)
Durations == [r \in DOMAIN rides |-> rides[r].duration]
Distances == [r \in DOMAIN rides |-> Distance(rides[r])]
Routed    == {r \in DOMAIN rides : Distances[r] # Null}

RowsOK ==
    /\ IsFiniteSet(DOMAIN rides)
    /\ \A r \in DOMAIN rides :
          /\ r \in Int
          /\ rides[r].checkout \in Nat /\ rides[r].checkin \in Int
          /\ rides[r].duration \in Int
    /\ \A key \in DOMAIN routes : routes[key].distance_meters \in Int

\* order gives the row of each entry.
ListsIn(order) ==
    LET n == Cardinality(DOMAIN rides)
    IN  /\ order \in [1..n -> DOMAIN rides]
        /\ \A r \in DOMAIN rides : \E i \in 1..n : order[i] = r
        /\ \A i, k \in 1..n : i < k => Precedes(order[i], order[k])
        /\ DOMAIN list = 1..n /\ Len(list) = n
        /\ \A i \in 1..n :
              LET row == rides[order[i]]
              IN  /\ list[i].ride_id = order[i]
                  /\ list[i].checkout = row.checkout
                  /\ list[i].duration = row.duration
                  /\ list[i].distance = Distance(row)
                  /\ list[i].actualDuration = ActualDurationSeconds(row)
                  /\ list[i].speed \in Speeds(row)

ListOK == Known(list) => \E order : ListsIn(order)

SummaryOK ==
    Known(summary) =>
        /\ summary.total = Cardinality(DOMAIN rides)
        /\ summary.totalDuration =
              IF DOMAIN rides = {} THEN Null ELSE Total(DOMAIN rides, Durations)
        /\ summary.averageDuration \in Averages(DOMAIN rides, Durations)
        /\ summary.longest =
              IF DOMAIN rides = {} THEN Null ELSE Max({rides[r].duration : r \in DOMAIN rides})
        /\ summary.shortest =
              IF DOMAIN rides = {} THEN Null ELSE Min({rides[r].duration : r \in DOMAIN rides})
        /\ summary.totalDistance =
              IF Routed = {} THEN Null ELSE Total(Routed, Distances)
        /\ summary.averageDistance \in AveragesOfTenths(Routed, Distances)

StoryInv == RowsOK /\ ListOK /\ SummaryOK

LEMMA InitStory == Init => StoryInv
  <1> SUFFICES ASSUME Init
               PROVE  StoryInv
      OBVIOUS
  <1>1. RowsOK
      BY FiguresAssumption DEF Init, FiguresAssumption, RowsOK
  <1> QED
      BY <1>1 DEF Init, StoryInv, ListOK, SummaryOK, Known

LEMMA IndexKeepsStory ==
  ASSUME StoryInv, Index
  PROVE  StoryInv'
  <1> DEFINE n == Cardinality(DOMAIN rides)
  <1>1. UNCHANGED <<rides, routes, observed, summary>>
      BY DEF Index, tables
  <1>2. RowsOK' /\ SummaryOK'
    <2>1. Durations' = Durations /\ Distances' = Distances /\ Routed' = Routed
        BY <1>1 DEF Durations, Distances, Routed, Distance, CachedRoute
    <2>2. SummaryOK'
        BY <1>1, <2>1 DEF StoryInv, SummaryOK, Known
    <2> QED
        BY <1>1, <2>2 DEF StoryInv, RowsOK
  <1>3. PICK order \in Orders(Joined), speed \in [Joined -> UNION {Speeds(rides[r]) : r \in Joined}] :
            /\ \A i, k \in DOMAIN order : i < k => Precedes(order[i], order[k])
            /\ \A r \in Joined : speed[r] \in Speeds(rides[r])
            /\ list' = [i \in DOMAIN order |-> Resource(order[i], speed[order[i]])]
      BY DEF Index
  <1>4. /\ order \in [1..n -> DOMAIN rides]
        /\ \A r \in DOMAIN rides : \E i \in 1..n : order[i] = r
      BY <1>3 DEF Orders, Joined
  <1>5. n \in Nat
      BY FS_CardinalityType DEF StoryInv, RowsOK
  <1> HIDE DEF n
  <1>6. list' = [i \in 1..n |-> Resource(order[i], speed[order[i]])]
      BY <1>3, <1>4
  <1>7. DOMAIN list' = 1..n /\ Len(list') = n
      BY <1>5, <1>6
  <1>8. ASSUME NEW i \in 1..n
        PROVE  /\ list'[i].ride_id = order[i]
               /\ list'[i].checkout = rides[order[i]].checkout
               /\ list'[i].duration = rides[order[i]].duration
               /\ list'[i].distance = Distance(rides[order[i]])
               /\ list'[i].actualDuration = ActualDurationSeconds(rides[order[i]])
               /\ list'[i].speed \in Speeds(rides[order[i]])
    <2>1. order[i] \in DOMAIN rides /\ list'[i] = Resource(order[i], speed[order[i]])
        BY <1>4, <1>6
    <2>2. speed[order[i]] \in Speeds(rides[order[i]])
        BY <1>3, <2>1 DEF Joined
    <2> QED
        BY <2>1, <2>2 DEF Resource
  <1>9. ListsIn(order)'
    <2>1. \A i, k \in 1..n : i < k => Precedes(order[i], order[k])'
        BY <1>1, <1>3, <1>4 DEF Precedes
    <2>2. \A row : Distance(row)' = Distance(row) /\ Speeds(row)' = Speeds(row)
        BY <1>1 DEF Distance, CachedRoute, Speeds
    <2>3. n' = n
        BY <1>1 DEF n
    <2> QED
        BY <1>1, <1>4, <1>7, <1>8, <2>1, <2>2, <2>3 DEF ListsIn, n
  <1> QED
      BY <1>2, <1>9 DEF StoryInv, ListOK

LEMMA SummaryKeepsStory ==
  ASSUME StoryInv, Summary
  PROVE  StoryInv'
  <1>1. UNCHANGED <<rides, routes, observed, list>>
      BY DEF Summary, tables
  <1>2. RowsOK' /\ ListOK'
    <2>1. \A row : Distance(row)' = Distance(row) /\ Speeds(row)' = Speeds(row)
        BY <1>1 DEF Distance, CachedRoute, Speeds
    <2>2. \A a, b : Precedes(a, b)' = Precedes(a, b)
        BY <1>1 DEF Precedes
    <2>3. \A order : ListsIn(order) => ListsIn(order)'
        BY <1>1, <2>1, <2>2 DEF ListsIn
    <2> QED
        BY <1>1, <2>3 DEF StoryInv, RowsOK, ListOK, Known
  <1>3. \E perRide \in Averages(DOMAIN rides, Durations),
            perRouted \in AveragesOfTenths(Routed, Distances) :
            summary' = [total           |-> Cardinality(DOMAIN rides),
                        totalDuration   |-> IF DOMAIN rides = {} THEN Null
                                            ELSE Total(DOMAIN rides, Durations),
                        averageDuration |-> perRide,
                        longest         |-> IF DOMAIN rides = {} THEN Null ELSE Max(Range(Durations)),
                        shortest        |-> IF DOMAIN rides = {} THEN Null ELSE Min(Range(Durations)),
                        totalDistance   |-> IF Routed = {} THEN Null ELSE Total(Routed, Distances),
                        averageDistance |-> perRouted]
      BY DEF Summary, Durations, Distances, Routed
  <1>4. Range(Durations) = {rides[r].duration : r \in DOMAIN rides}
      BY DEF Range, Durations
  <1>5. /\ summary'.total = Cardinality(DOMAIN rides)
        /\ summary'.totalDuration =
              (IF DOMAIN rides = {} THEN Null ELSE Total(DOMAIN rides, Durations))
        /\ summary'.averageDuration \in Averages(DOMAIN rides, Durations)
        /\ summary'.longest =
              (IF DOMAIN rides = {} THEN Null ELSE Max({rides[r].duration : r \in DOMAIN rides}))
        /\ summary'.shortest =
              (IF DOMAIN rides = {} THEN Null ELSE Min({rides[r].duration : r \in DOMAIN rides}))
        /\ summary'.totalDistance = (IF Routed = {} THEN Null ELSE Total(Routed, Distances))
        /\ summary'.averageDistance \in AveragesOfTenths(Routed, Distances)
      BY <1>3, <1>4
  <1>6. Durations' = Durations /\ Distances' = Distances /\ Routed' = Routed
      BY <1>1 DEF Durations, Distances, Routed, Distance, CachedRoute
  <1>7. SummaryOK'
      BY <1>1, <1>5, <1>6 DEF SummaryOK
  <1> QED
      BY <1>2, <1>7 DEF StoryInv

LEMMA NextKeepsStory ==
  ASSUME StoryInv, [Next]_vars
  PROVE  StoryInv'
  <1>1. CASE UNCHANGED <<tables, list, summary>>
    <2>1. UNCHANGED <<rides, routes, list, summary>>
        BY <1>1 DEF tables
    <2>2. \A row : Distance(row)' = Distance(row) /\ Speeds(row)' = Speeds(row)
        BY <2>1 DEF Distance, CachedRoute, Speeds
    <2>3. \A a, b : Precedes(a, b)' = Precedes(a, b)
        BY <2>1 DEF Precedes
    <2>4. \A order : ListsIn(order) => ListsIn(order)'
        BY <2>1, <2>2, <2>3 DEF ListsIn
    <2>5. Durations' = Durations /\ Distances' = Distances /\ Routed' = Routed
        BY <2>1 DEF Durations, Distances, Routed, Distance, CachedRoute
    <2> QED
        BY <2>1, <2>4, <2>5 DEF StoryInv, RowsOK, ListOK, SummaryOK, Known
  <1>2. CASE CheckoutTimes \/ Row \/ Calculate \/ UNCHANGED vars
      BY <1>1, <1>2 DEF CheckoutTimes, Row, Calculate, vars
  <1> QED
      BY <1>2, IndexKeepsStory, SummaryKeepsStory DEF Next

(* A hundredth that rounds a quotient is near to it. *)
LEMMA RoundedIsNear ==
  ASSUME NEW unit \in Nat, NEW sum \in Int, NEW n \in Nat, n > 0,
         NEW mean \in Nearest(unit * sum, n)
  PROVE  mean \in Int /\ Near(mean, sum, n, unit)
  <1>1. PICK a \in Int : a = unit * sum
      OBVIOUS
  <1>2. mean \in Nearest(a, n)
      BY <1>1
  <1>3. mean \in Int /\ 2 * (a - mean * n) <= n /\ 2 * (mean * n - a) <= n
      BY <1>2, NearestIsNear
  <1>4. PICK product \in Int : product = mean * n
      BY <1>3
  <1>5. 2 * (product - a) \in -n..n
      BY <1>3, <1>4
  <1> QED
      BY <1>1, <1>3, <1>4, <1>5 DEF Near

LEMMA CardinalityIsPositive ==
  ASSUME NEW ids, IsFiniteSet(ids), ids # {}
  PROVE  Cardinality(ids) \in Nat /\ Cardinality(ids) > 0
  <1>1. Cardinality(ids) \in Nat /\ Cardinality(ids) # 0
      BY FS_CardinalityType, FS_EmptySet
  <1> QED
      BY <1>1

LEMMA TotalIsInt ==
  ASSUME NEW ids, IsFiniteSet(ids), NEW column, \A x \in ids : column[x] \in Int
  PROVE  Total(ids, column) \in Int
  <1>1. SumOver(column, ids) \in Int
      BY SumIsInt
  <1> QED
      BY <1>1 DEF Total, SumOver

(* The mean of some integers is at most half a hundredth from their sum. *)
LEMMA AveragesAreNear ==
  ASSUME NEW ids, IsFiniteSet(ids), ids # {}, NEW column, \A x \in ids : column[x] \in Int,
         NEW mean, mean \in Averages(ids, column)
  PROVE  Near(mean, Total(ids, column), Cardinality(ids), 100)
  <1>1. mean \in Nearest(100 * Total(ids, column), Cardinality(ids))
      BY DEF Averages, Money
  <1> QED
      BY <1>1, RoundedIsNear, TotalIsInt, CardinalityIsPositive

LEMMA AveragesOfTenthsAreNear ==
  ASSUME NEW ids, IsFiniteSet(ids), ids # {}, NEW column, \A x \in ids : column[x] \in Int,
         NEW mean, mean \in AveragesOfTenths(ids, column)
  PROVE  Near(mean, Total(ids, column), Cardinality(ids), 10)
  <1>1. mean \in Nearest(10 * Total(ids, column), Cardinality(ids))
      BY DEF AveragesOfTenths
  <1> QED
      BY <1>1, RoundedIsNear, TotalIsInt, CardinalityIsPositive

(* What the list says of a ride is what its row says, and each row is      *)
(* listed once: sums over the entries are sums over the rows.              *)
LEMMA EntriesAreRows ==
  ASSUME RowsOK, NEW order, ListsIn(order)
  PROVE  LET duration == [i \in Entries |-> list[i].duration]
             distance == [i \in Entries |-> list[i].distance]
             routed   == {i \in Entries : distance[i] # Null}
         IN  /\ \A i, k \in Entries : order[i] = order[k] => i = k
             /\ Total(Entries, duration) = Total(DOMAIN rides, Durations)
             /\ \A r \in Routed : Distances[r] \in Int
             /\ Total(routed, distance) = Total(Routed, Distances)
             /\ IsFiniteSet(Routed) /\ Cardinality(routed) = Cardinality(Routed)
  <1> DEFINE duration == [i \in Entries |-> list[i].duration]
             distance == [i \in Entries |-> list[i].distance]
             routed   == {i \in Entries : distance[i] # Null}
             n        == Cardinality(DOMAIN rides)
  <1>1. n \in Nat /\ Entries = 1..n
      BY FS_CardinalityType DEF RowsOK, ListsIn, Entries
  <1> HIDE DEF n
  <1>2. \A i \in Entries : order[i] \in DOMAIN rides
      BY <1>1 DEF ListsIn, n
  <1>3. \A i, k \in Entries : order[i] = order[k] => i = k
    <2> SUFFICES ASSUME NEW i \in Entries, NEW k \in Entries, order[i] = order[k], i < k
                 PROVE  FALSE
        BY <1>1
    <2>1. Precedes(order[i], order[k])
        BY <1>1 DEF ListsIn, n
    <2>2. order[i] \in Int /\ rides[order[i]].checkout \in Nat
        BY <1>2 DEF RowsOK
    <2> QED
        BY <2>1, <2>2 DEF Precedes
  <1>4. IsFiniteSet(Entries)
      BY <1>1, FS_Interval
  <1>5. {order[i] : i \in Entries} = DOMAIN rides
    <2>1. \A r \in DOMAIN rides : \E i \in Entries : order[i] = r
        BY <1>1 DEF ListsIn, n
    <2> QED
        BY <1>2, <2>1
  <1>6. \A i \in Entries : /\ duration[i] = Durations[order[i]] /\ duration[i] \in Int
                           /\ distance[i] = Distances[order[i]]
      BY <1>1, <1>2 DEF ListsIn, RowsOK, Durations, Distances, n
  <1>7. \A r \in Routed : Distances[r] \in Int
      BY DEF Routed, Distances, Distance, CachedRoute, RowsOK
  <1>8. {order[i] : i \in routed} = Routed
    <2>1. ASSUME NEW i \in routed
          PROVE  order[i] \in Routed
        BY <1>2, <1>6 DEF Routed
    <2>2. ASSUME NEW r \in Routed
          PROVE  \E i \in routed : order[i] = r
      <3>1. PICK i \in Entries : order[i] = r
          BY <1>5 DEF Routed
      <3> QED
          BY <1>6, <3>1 DEF Routed
    <2> QED
        BY <2>1, <2>2
  <1>9. \A i \in routed : i \in Entries /\ order[i] \in Routed /\ distance[i] \in Int
      BY <1>6, <1>7, <1>8
  <1>10. IsFiniteSet(routed)
      BY <1>4, FS_Subset
  <1> HIDE DEF duration, distance, routed
  <1>11. SumOver(duration, Entries) = SumOver(Durations, DOMAIN rides)
    <2>1. SumOver(duration, Entries) = SumOver(Durations, {order[i] : i \in Entries})
        BY <1>3, <1>4, <1>6, SumReindexed
    <2> QED
        BY <1>5, <2>1
  <1>12. SumOver(distance, routed) = SumOver(Distances, Routed)
    <2>1. SumOver(distance, routed) = SumOver(Distances, {order[i] : i \in routed})
        BY <1>3, <1>6, <1>9, <1>10, SumReindexed
    <2> QED
        BY <1>8, <2>1
  <1>13. IsFiniteSet(Routed) /\ Cardinality(routed) = Cardinality(Routed)
    <2> DEFINE f == [i \in routed |-> order[i]]
    <2>1. f \in [routed -> Routed] /\ \A r \in Routed : \E i \in routed : f[i] = r
        BY <1>8
    <2>2. \A i, k \in routed : f[i] = f[k] => i = k
        BY <1>3, <1>9
    <2>3. f \in Bijection(routed, Routed)
        BY <2>1, <2>2 DEF Bijection, Injection, Surjection, IsInjective
    <2> HIDE DEF f
    <2>4. ExistsBijection(routed, Routed)
        BY <2>3 DEF ExistsBijection
    <2> QED
        BY <1>10, <2>4, FS_Bijection
  <1>14. /\ Total(Entries, duration) = Total(DOMAIN rides, Durations)
         /\ Total(routed, distance) = Total(Routed, Distances)
      BY <1>11, <1>12 DEF Total, SumOver
  <1> QED
      BY <1>3, <1>7, <1>13, <1>14 DEF duration, distance, routed

LEMMA StoryAddsUp == StoryInv => ListAddsUp
  <1> SUFFICES ASSUME StoryInv, Known(list), Known(summary)
               PROVE  ListAddsUp
      BY DEF ListAddsUp
  <1> DEFINE n        == Cardinality(DOMAIN rides)
             duration == [i \in Entries |-> list[i].duration]
             distance == [i \in Entries |-> list[i].distance]
             routed   == {i \in Entries : distance[i] # Null}
  <1>1. PICK order : ListsIn(order)
      BY DEF StoryInv, ListOK
  <1>2. RowsOK /\ Null \notin Int
      BY FiguresAssumption DEF StoryInv, FiguresAssumption
  <1>3. /\ \A i, k \in Entries : order[i] = order[k] => i = k
        /\ Total(Entries, duration) = Total(DOMAIN rides, Durations)
        /\ \A r \in Routed : Distances[r] \in Int
        /\ Total(routed, distance) = Total(Routed, Distances)
        /\ IsFiniteSet(Routed) /\ Cardinality(routed) = Cardinality(Routed)
      BY <1>1, <1>2, EntriesAreRows
  <1>4. /\ n \in Nat /\ Entries = 1..n /\ Len(list) = n
        /\ \A i \in Entries : order[i] \in DOMAIN rides
      BY <1>1, <1>2, FS_CardinalityType DEF ListsIn, RowsOK, Entries
  <1>5. n = 0 <=> DOMAIN rides = {}
      BY <1>2, FS_EmptySet DEF RowsOK
  <1>6. routed = {} <=> Routed = {}
    <2>1. IsFiniteSet(Entries) /\ routed \subseteq Entries
        BY <1>4, FS_Interval
    <2> HIDE DEF routed
    <2> QED
        BY <1>3, <2>1, FS_EmptySet, FS_Subset
  <1> HIDE DEF n, routed, distance, duration
  <1>7. summary.total = Len(list)
      BY <1>4 DEF StoryInv, SummaryOK, n
  <1>8. ASSUME NEW i \in Entries, NEW k \in Entries, i < k
        PROVE  /\ list[i].ride_id # list[k].ride_id
               /\ list[i].checkout >= list[k].checkout
    <2>1. Precedes(order[i], order[k])
        BY <1>1, <1>4, <1>8 DEF ListsIn, n
    <2>2. /\ list[i].ride_id = order[i] /\ list[i].checkout = rides[order[i]].checkout
          /\ list[k].ride_id = order[k] /\ list[k].checkout = rides[order[k]].checkout
        BY <1>1, <1>4 DEF ListsIn, n
    <2>3. rides[order[i]].checkout \in Nat /\ rides[order[k]].checkout \in Nat
        BY <1>2, <1>4 DEF RowsOK
    <2>4. i # k
        BY <1>4, <1>8
    <2> QED
        BY <1>3, <2>1, <2>2, <2>3, <2>4 DEF Precedes
  <1>9. DistancesAgree
    <2>1. CASE routed = {}
      <3>1. summary.totalDistance = Null /\ summary.averageDistance \in {Null}
          BY <1>6, <2>1 DEF StoryInv, SummaryOK, AveragesOfTenths
      <3> QED
          BY <2>1, <3>1 DEF DistancesAgree, routed, distance
    <2>2. CASE routed # {}
      <3>1. /\ Routed # {} /\ summary.totalDistance = Total(Routed, Distances)
            /\ summary.averageDistance \in AveragesOfTenths(Routed, Distances)
          BY <1>6, <2>2 DEF StoryInv, SummaryOK
      <3>2. Near(summary.averageDistance, Total(Routed, Distances), Cardinality(Routed), 10)
          BY <1>3, <3>1, AveragesOfTenthsAreNear
      <3>3. /\ summary.totalDistance = Total(routed, distance)
            /\ Near(summary.averageDistance, summary.totalDistance, Cardinality(routed), 10)
          BY <1>3, <3>1, <3>2
      <3> QED
          BY <2>2, <3>3 DEF DistancesAgree, routed, distance
    <2> QED
        BY <2>1, <2>2
  <1>10. DurationsAgree
    <2>1. CASE Entries = {}
      <3>1. DOMAIN rides = {}
          BY <1>4, <1>5, <2>1
      <3>2. /\ summary.totalDuration = Null /\ summary.averageDuration \in {Null}
            /\ summary.longest = Null /\ summary.shortest = Null
          BY <3>1 DEF StoryInv, SummaryOK, Averages
      <3> QED
          BY <2>1, <3>2 DEF DurationsAgree
    <2>2. CASE Entries # {}
      <3> DEFINE lengths == {rides[r].duration : r \in DOMAIN rides}
      <3>1. DOMAIN rides # {}
          BY <1>4, <2>2
      <3>2. /\ summary.totalDuration = Total(DOMAIN rides, Durations)
            /\ summary.averageDuration \in Averages(DOMAIN rides, Durations)
            /\ summary.longest = Max(lengths) /\ summary.shortest = Min(lengths)
          BY <3>1 DEF StoryInv, SummaryOK
      <3>3. \A r \in DOMAIN rides : Durations[r] \in Int
          BY <1>2 DEF RowsOK, Durations
      <3>4. Near(summary.averageDuration, Total(DOMAIN rides, Durations), n, 100)
          BY <1>2, <3>1, <3>2, <3>3, AveragesAreNear DEF RowsOK, n
      <3>5. \A i \in Entries : duration[i] = rides[order[i]].duration
          BY <1>1, <1>4 DEF ListsIn, n, duration
      <3>6. /\ IsFiniteSet(lengths) /\ lengths # {} /\ \A x \in lengths : x \in Int
            /\ \A i \in Entries : duration[i] \in lengths
        <4>1. Durations \in Surjection(DOMAIN rides, lengths)
            BY DEF Durations, Surjection
        <4>2. IsFiniteSet(lengths)
          <5> HIDE DEF lengths
          <5> QED
              BY <1>2, <4>1, FS_Surjection DEF RowsOK
        <4> QED
            BY <1>2, <1>4, <3>1, <3>5, <4>2 DEF RowsOK
      <3>7. \A x \in lengths : \E i \in Entries : duration[i] = x
        <4> SUFFICES ASSUME NEW r \in DOMAIN rides
                     PROVE  \E i \in Entries : duration[i] = rides[r].duration
            OBVIOUS
        <4>1. PICK i \in Entries : order[i] = r
            BY <1>1, <1>4 DEF ListsIn, n
        <4> QED
            BY <3>5, <4>1
      <3> HIDE DEF lengths
      <3>8. /\ Max(lengths) \in lengths /\ \A x \in lengths : x <= Max(lengths)
            /\ Min(lengths) \in lengths /\ \A x \in lengths : Min(lengths) <= x
          BY <3>6, MaxAndMin
      <3>9. \A i \in Entries : duration[i] \in summary.shortest..summary.longest
          BY <3>2, <3>6, <3>8
      <3>10. /\ \E i \in Entries : duration[i] = summary.shortest
             /\ \E i \in Entries : duration[i] = summary.longest
          BY <3>2, <3>7, <3>8
      <3>11. /\ summary.totalDuration = Total(Entries, duration)
             /\ Near(summary.averageDuration, summary.totalDuration, Len(list), 100)
          BY <1>3, <1>4, <3>2, <3>4
      <3> QED
          BY <2>2, <3>9, <3>10, <3>11 DEF DurationsAgree, duration
    <2> QED
        BY <2>1, <2>2
  <1>11. ASSUME NEW i \in Entries
         PROVE  SpeedAgrees(list[i])
    <2> DEFINE row  == rides[order[i]]
               took == ActualDurationSeconds(row)
    <2>1. /\ list[i].distance = Distance(row) /\ list[i].actualDuration = took
          /\ list[i].speed \in Speeds(row)
        BY <1>1, <1>4 DEF ListsIn, n
    <2>2. took \in Int
        BY <1>2, <1>4 DEF RowsOK, ActualDurationSeconds
    <2>3. Distance(row) # Null => Distance(row) \in Int
        BY <1>2 DEF RowsOK, Distance, CachedRoute
    <2> HIDE DEF row, took
    <2>4. CASE Distance(row) = Null \/ took <= 0
      <3>1. list[i].speed = Null
          BY <2>1, <2>4 DEF Speeds, took
      <3> QED
          BY <2>1, <2>2, <2>4, <3>1 DEF SpeedAgrees
    <2>5. CASE Distance(row) # Null /\ ~(took <= 0)
      <3>1. list[i].speed \in Nearest(Distance(row) * 36, took)
          BY <2>1, <2>5 DEF Speeds, took
      <3>2. Distance(row) \in Int /\ took \in Nat /\ took > 0
          BY <2>2, <2>3, <2>5
      <3>3. list[i].speed \in Nearest(36 * Distance(row), took)
          BY <3>1, <3>2
      <3>4. list[i].speed \in Int /\ Near(list[i].speed, Distance(row), took, 36)
          BY <3>2, <3>3, RoundedIsNear
      <3>5. list[i].speed # Null
          BY <1>2, <3>4
      <3> QED
          BY <2>1, <2>5, <3>2, <3>4, <3>5 DEF SpeedAgrees
    <2> QED
        BY <2>4, <2>5
  <1> QED
      BY <1>7, <1>8, <1>9, <1>10, <1>11 DEF ListAddsUp

(* For every table, in whatever order SQLite adds up its rows: the list    *)
(* has each ride once and the newest first, the totals, the averages and   *)
(* the extremes of the summary are those of the list, or NULL, and a speed *)
(* agrees with its entry (repository.go All, summary.go,                   *)
(* resource.go:33-77).                                                     *)
THEOREM ListIsRight == Spec => []ListAddsUp
  <1>1. Init => StoryInv
      BY InitStory
  <1>2. StoryInv /\ [Next]_vars => StoryInv'
      BY NextKeepsStory
  <1> QED
      BY <1>1, <1>2, StoryAddsUp, PTL DEF Spec
=============================================================================
