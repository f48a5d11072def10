SPECIFICATION Spec
CONSTANTS
    Files = {1, 4}
    Deposits = {"A", "B"}
    Contents <- FeedContents
    Exposed = {"B"}
    Threshold = 2
    Checks = {"amount_usd", "payment_method"}
    Critical = {"amount_usd"}
    BadAmounts <- FeedBad
    InternalKeys <- FeedKeys
    Executions = 2
INVARIANTS
    TypeOK
    NothingLoadedUnchecked
    RegressionsAreReal
    CountsMatchDiscrepancies
PROPERTIES
    StagingIsOrderFree
    LateStaysLate
    EveryDeliveryLoaded
    ReportsSelfCorrect
