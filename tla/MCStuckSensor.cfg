SPECIFICATION Spec
CONSTANTS
    Callers = {"airflow_init", "developer"}
    NoCaller = "none"
    Manifest <- Files
    AirflowInit = "airflow_init"
    Clients = {"A", "N"}
    Signups <- Onboarding
    Profiled = {"A", "N"}
    MaxDeaths = 1
    Late = {"N"}
    ChangeLog <- OnboardingLog
    TradeLog <- NoTrades
    Configured = {}
PROPERTY EveryChangeApplied
