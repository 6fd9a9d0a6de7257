SPECIFICATION Spec
CONSTANTS
    w1 = w1  w2 = w2  w3 = w3  r1 = r1  r2 = r2  s1 = s1  s2 = s2  t1 = t1  t2 = t2
    Clients = {c1}
    Workers = {w2}
    Serves <- DistanceWorker
    NoJob = NoJob
    MaxJobs = 2
    MaxFaults = 1
    FaultKinds = {"push", "reply", "handler", "crash"}
    Commands = {"check-distances"}
    Rides = {r1, r2}
    Codes = {s1, s2}
    Times = {t1, t2}
    Absent = Absent
    Export <- Corrected
INVARIANTS ChecksInv EnrichmentBacked NoForeignKeyError
PROPERTIES NoRefetch ChecksAreKept ProcessedMeansChecked
