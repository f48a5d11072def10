SPECIFICATION Spec
CONSTANTS
    Clients = {1}
    Lsns = {1}
    Wal <- KnownWal
    Line <- KnownLines
    ReloadFrom <- NoReload
    ProfileClients = {1}
    Seeded = {}
    Facts = {}
    FactRow <- NoFacts
    Loads = {"apply", "seed"}
    Kind <- RaceKind
    Source <- RaceSource
    Slots = 2
    Forever = 99
INVARIANTS
    OneCurrentRow
CHECK_DEADLOCK FALSE
