\* Two requests at once for the health collector of GCP.
SPECIFICATION Spec
CONSTANTS
    Providers = {"gcp"}
    MaxAttempts = 1
    UintMax = 3
    LoginSleep = 4
    ReadSleep = 3
    MaxRotations = 0
    Events = {1}
    States = {"open", "closed", "upcoming"}
    Entities = {a1}
    BatchSize = 2
    HealthRequests = {q1, q2}
    MaxCount = 2
    Keys = {1}
    Backups <- OneBackup
    MaxTouched = 1
INVARIANT ConcurrentResponse
