SPECIFICATION Spec
CONSTANTS
    Callers = {"airflow_init", "developer"}
    NoCaller = "none"
    Manifest <- Files
    AirflowInit = "airflow_init"
    Clients = {"A", "N"}
    Signups <- Founding
    Profiled = {"A", "N"}
    MaxDeaths = 1
    Late = {"N"}
    ChangeLog <- FoundingLog
    TradeLog <- FoundingTrades
    Configured = {}
INVARIANTS
    TypeOK
    MigratedOnce
    BaselineFirst
PROPERTIES
    OwnedColumnsKept
    EveryTradeLoaded
    EveryChangeApplied
    EveryClientCompleted
