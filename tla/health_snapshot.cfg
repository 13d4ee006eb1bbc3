CONSTANTS
    Threads = {t1, t2}
    Reasons = {"FactsStale", "DependencyUnavailable"}
    None = None
SPECIFICATION HealthSpec
INVARIANTS SnapshotConsistent
