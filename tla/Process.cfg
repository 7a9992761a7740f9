\* Every provider, with one that nobody knows: the start with its retries, three
\* events in batches of two, a bucket of up to three backups.
SPECIFICATION FairSpec
CONSTANTS
    Providers = {"aws", "azure", "alicloud", "gcp", "other"}
    MaxAttempts = 3
    UintMax = 3
    LoginSleep = 4
    ReadSleep = 3
    MaxRotations = 1
    Events = {1, 2, 3}
    States = {"open", "closed", "upcoming"}
    Entities = {a1, a2}
    BatchSize = 2
    HealthRequests = {q1}
    MaxCount = 1
    Keys = {1, 2, 3}
    Backups <- FewBackups
    MaxTouched = 1
INVARIANTS TypeOK StartedIsComplete ProjectMatchesAccount BackoffBounds
    HealthResponse BucketResponse
PROPERTY StartEnds
