SPECIFICATION Spec
CONSTANTS
    Clients = {1}
    Lsns = {1, 2, 3}
    Wal <- NewWal
    Corrected = {}
    ProfileClients = {1}
    Facts = {"early", "late"}
    FactRow <- NewFacts
    Windows <- NoWindows
    Forever = 99
PROPERTIES
    SecondApplyFindsNothing
