SPECIFICATION Spec
CONSTANTS
    s1 = s1
    s2 = s2
    p1 = p1
    NoWriter = NoWriter
    Scripts = {s1, s2}
    Paths = {p1}
    PathOf <- MCPathOf
    Careful = {s1}
    QueueCap = 1
    MaxExecs <- MCMaxExecs
    MaxQueries <- MCMaxQueries
INVARIANTS
    TypeOK
    PathExclusive
    ReportNeverBlocks
PROPERTIES
    CarefulEnds
    CloseStops
    ImplementsService
CHECK_DEADLOCK FALSE
