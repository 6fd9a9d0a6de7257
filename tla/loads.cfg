SPECIFICATION FairSpec
CONSTANTS
    r1 = r1  r2 = r2  s1 = s1  s2 = s2  t1 = t1
    Rides = {r1, r2}
    Codes = {s1, s2}
    Times = {t1}
    Absent = Absent
    Loaders = {p1, p2, p3, p4}
    LoadsRides = {p3, p4}
    Feeds <- OneFeed
    Exports <- TwoExports
    MaxFaults = 1
INVARIANTS LoadingInv LastEntryWins CreatedAreRows ConflictsNeedOverlap
PROPERTIES LoadSpec LoadsEnd
CHECK_DEADLOCK FALSE
