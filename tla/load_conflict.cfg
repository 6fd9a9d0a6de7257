SPECIFICATION Spec
CONSTANTS
    r1 = r1  r2 = r2  s1 = s1  s2 = s2  t1 = t1
    Rides = {r1, r2}
    Codes = {s1, s2}
    Times = {t1}
    Absent = Absent
    Loaders = {p2, p3}
    LoadsRides = {p2, p3}
    Feeds <- OneFeed
    Exports <- TwoExports
    MaxFaults = 0
INVARIANT NoConflict
CHECK_DEADLOCK FALSE
