SPECIFICATION FairSpec
CONSTANTS
    Jobs = {j1, j2}
    NoJob = NoJob
    Workers = {w1, w2}
    Kinds = {"import_gtfs", "cleanup", "sync_trips_attach"}
    Handled = {"import_gtfs", "cleanup"}
    Hashes = {}
    NoHash = NoHash
    Providers = {"gtfs"}
    KnownProviders = {"gtfs"}
    Limits = {8}
    Shared = {}
    WorkerLimit = 8
    GiveUp = 5
    AttemptsBound = 8
    Faulty = FALSE
    Rotation <- MCRotation
    Outcomes <- SteadyOutcomes
INVARIANTS RunningIsOwned
PROPERTIES JobsSettle
