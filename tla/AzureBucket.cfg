\* The backup bucket in Azure.
SPECIFICATION Spec
CONSTANTS
    Providers = {"azure"}
    MaxAttempts = 1
    UintMax = 3
    LoginSleep = 4
    ReadSleep = 3
    MaxRotations = 0
    Events = {1}
    States = {"open", "closed", "upcoming"}
    Entities = {a1}
    BatchSize = 2
    HealthRequests = {q1}
    MaxCount = 1
    Keys = {1, 2, 3}
    Backups <- FewBackups
    MaxTouched = 1
INVARIANT LastBackupDate
