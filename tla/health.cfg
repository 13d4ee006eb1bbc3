CONSTANTS
    Threads = {t1, t2, t3}
    Reasons = {"FactsStale", "DependencyUnavailable"}
    None = None
    MetricKeys = {k1, k2}
    MAX = 2
    MaxIncrements = 3
SPECIFICATION TelemetrySpec
INVARIANTS HealthTypeOK StopSticks LateSnapshots MetricsTypeOK CountsExact SnapshotsOfAMoment
PROPERTIES ImplementsLifecycle ShutdownShows
