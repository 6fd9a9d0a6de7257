SPECIFICATION FairSpec
CONSTANTS
    w1 = w1  w2 = w2  q1 = q1  q2 = q2
    Workers = {w1, w2}
    Queues = {q1, q2}
    Types = {"check", "unknown"}
    Registered = {"check"}
    Payloads = {"ride"}
    NoJob = NoJob
    Clients = {c1, c2}
    Serves <- SharedLists
    MaxJobs = 2
    MaxFaults = 2
    FaultKinds = {"push", "reply", "pop", "popReply", "statement", "panic", "crash"}
INVARIANTS Inv OneAtATime RunOnce InPushOrder Accounted
PROPERTIES Lifecycle StopsOnSignal JobsAreTaken
