SPECIFICATION Spec
CONSTANTS
    Jobs = {j1, j2, j3}
    NoJob = NoJob
    Workers = {w1, w2}
    Kinds = {"import_gtfs", "sync_trips_attach"}
    Handled = {"import_gtfs"}
    Hashes = {h1}
    NoHash = NoHash
    Providers = {"gtfs"}
    KnownProviders = {"gtfs"}
    Limits = {1, 2}
    Shared = {"gtfs"}
    WorkerLimit = 2
    GiveUp = 3
    AttemptsBound = 5
    Faulty = TRUE
    Rotation <- MCRotation
    Outcomes <- MCOutcomes
SYMMETRY Symmetry
INVARIANTS TypeOK NoSharedJob NoConcurrentImport BudgetSpent QuotaBounded
PROPERTIES SettledIsFinal ImplementsBoard
