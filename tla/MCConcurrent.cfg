SPECIFICATION Spec
CONSTANTS
    Clients = {1, 2, 3}
    Lsns = {1, 2, 3, 4}
    Wal <- CrossedWal
    Line <- CrossedLines
    ReloadFrom <- CrossedFrom
    ProfileClients = {1}
    Seeded = {1}
    Facts = {1, 2, 3}
    FactRow <- OrphanFacts
    Loads = {"apply", "reload", "seed", "deposits", "trades"}
    Kind <- CrossedKind
    Source <- CrossedSource
    Slots = 3
    Forever = 99
INVARIANTS
    TypeOK
    CommittedHistoriesSound
    WatermarksNeverCollide
    StopgapsNeverSwallowed
    NothingMissed
    CommittedFactsInEffect
PROPERTIES
    EveryLoadEnds
CHECK_DEADLOCK FALSE
