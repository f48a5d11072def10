SPECIFICATION Spec
CONSTANTS
    Clients = {1, 2}
    Lsns = {1, 2, 3, 4}
    Wal <- TwoWal
    Corrected = {1}
    ProfileClients = {}
    Facts = {"one"}
    FactRow <- TwoFacts
    Windows <- TwoWindows
    Forever = 99
INVARIANTS
    StaleQuarantinedOnce
PROPERTIES
    SelectedIsAccountedFor
    SeedClearsStopgaps
    ReloadLeavesOthersAlone
    ReloadRecordsTheLog
    ReloadIsRepeatable
