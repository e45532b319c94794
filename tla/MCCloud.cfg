SPECIFICATION MCSpec
CONSTANTS
    Devices = {pc1, cloud}
    Objects = {o1}
    Contents = {x, y, s}
    Secrets = {s}
    None = None
    MaxRetries <- Retries
    MaxEdits = 2
    MaxFailures = 1
    MaxResolves = 1
    Machines = {"pc"}
    Users = {"c1", "c2"}
    Lease = 1
    MaxTime = 3
    MaxRows = 2
    Providers = {"pc", "k"}
    Local = {"pc"}
    Fits = {"pc", "k"}
    Price <- Prices
    Callers = {"c1", "c2"}
INVARIANTS SyncSafe PresenceSafe OffloadSafe
PROPERTIES ConflictExplicit DevicesConverge
CHECK_DEADLOCK FALSE
