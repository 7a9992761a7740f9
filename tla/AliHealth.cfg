\* Two requests of AliCloud's health collector.
SPECIFICATION Spec
CONSTANTS
    Providers = {"alicloud"}
    MaxAttempts = 1
    UintMax = 3
    LoginSleep = 4
    ReadSleep = 3
    MaxRotations = 0
    Events = {1}
    States = {"open", "closed", "upcoming"}
    Entities = {a1}
    BatchSize = 2
    HealthRequests = {q1}
    MaxCount = 2
    Keys = {1}
    Backups <- OneBackup
    MaxTouched = 1
INVARIANT AliEventCounts
