SPECIFICATION FairSpec
CONSTANTS
    Jobs = {j1, j2}
    NoJob = NoJob
    Workers = {w1}
    Kinds = {"import_gtfs"}
    Handled = {"import_gtfs"}
    Hashes = {h1}
    NoHash = NoHash
    Providers = {"gtfs"}
    KnownProviders = {"gtfs"}
    Limits = {8}
    Shared = {}
    WorkerLimit = 8
    GiveUp = 5
    AttemptsBound = 8
    Faulty = FALSE
    Rotation <- MCRotation
    Outcomes <- SteadyOutcomes
PROPERTIES JobsSettle
