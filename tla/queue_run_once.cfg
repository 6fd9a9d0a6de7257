SPECIFICATION Spec
CONSTANTS
    w1 = w1  w2 = w2  q1 = q1  q2 = q2
    Workers = {w1, w2}
    Queues = {q1, q2}
    Types = {"check", "unknown"}
    Registered = {"check"}
    Payloads = {"ride"}
    NoJob = NoJob
    Clients = {c1}
    Serves <- OneListEach
    MaxJobs = 2
    MaxFaults = 1
    FaultKinds = {"reply"}
INVARIANT JobsRunOnce
