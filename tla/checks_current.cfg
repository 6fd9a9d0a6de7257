SPECIFICATION Spec
CONSTANTS
    w1 = w1  w2 = w2  w3 = w3  r1 = r1  r2 = r2  s1 = s1  s2 = s2  t1 = t1  t2 = t2
    Clients = {c1}
    Workers = {w1}
    Serves <- BothLists
    NoJob = NoJob
    MaxJobs = 1
    MaxFaults = 0
    FaultKinds = {}
    Commands = {"check-distances", "check-weather"}
    Rides = {r1}
    Codes = {s1, s2}
    Times = {t1, t2}
    Absent = Absent
    Export <- Corrected
INVARIANT EnrichmentIsCurrent
