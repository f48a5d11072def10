SPECIFICATION Spec
CONSTANTS
    Clients = {1}
    Lsns = {1, 2, 3}
    Wal <- KnownWal
    Corrected = {}
    ProfileClients = {1}
    Facts = {"early", "late"}
    FactRow <- KnownFacts
    Windows <- KnownWindows
    Forever = 99
INVARIANTS
    TypeOK
    CurrentIsNewest
    RealVersionsTile
    VersionsMatchTheLog
    WatermarkIsNewestVersion
    ReloadNeverRaises
    FactsHaveRows
PROPERTIES
    ImplementsTimeline
    NoVersionLost
    WatermarkNeverBack
    ReloadedFactsInEffect
    LoadedFactsInEffect
