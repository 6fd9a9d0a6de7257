SPECIFICATION FairSpec
CONSTANTS
    Processes = {p1, p2, p3}
    Objects <- TablesAndIndexes
    Names <- Files
    Creates <- FileObjects
    MaxFaults = 2
INVARIANTS MigrationsInv ReadySeesSchema RecordsAreBounded
PROPERTY MigrateEnds
