SPECIFICATION FairSpec
CONSTANTS
    w1 = w1  w2 = w2  w3 = w3  r1 = r1  r2 = r2  s1 = s1  s2 = s2  t1 = t1  t2 = t2
    Clients = {c1}
    Workers = {w1, w2}
    Serves <- SharedWorker
    NoJob = NoJob
    MaxJobs = 2
    MaxFaults = 1
    FaultKinds = {"handler"}
    Commands = {"dispatch-test", "check-distances", "force-weather"}
    Rides = {r1}
    Codes = {s1, s2}
    Times = {t1, t2}
    Absent = Absent
    Export <- Stable
INVARIANT OneUpstreamCall
PROPERTIES QueueSpec QueueFairSpec JobsSettle
