SPECIFICATION Spec
CONSTANTS
    Clients = {1}
    Lsns = {7}
    Wal <- NewWal
    Line <- NewLines
    ReloadFrom <- NoReload
    ProfileClients = {1}
    Seeded = {}
    Facts = {1}
    FactRow <- EarlyFact
    Loads = {"apply", "deposits"}
    Kind <- StopgapKind
    Source <- StopgapSource
    Slots = 2
    Forever = 99
INVARIANTS
    RealLsnsAreChanges
CHECK_DEADLOCK FALSE
