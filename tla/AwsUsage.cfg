\* A case on an account that may change while it runs.
CONSTANTS
    Keys <- MCKeys
    Subnets <- MCSubnets
    ZoneOf <- MCZoneOf
    Sizes <- MCSizes
    GiBPerTiB = 2
    MaxTouched = 1
SPECIFICATION Spec
INVARIANTS
    TypeOK
    QuietAccountIsCounted
    UntouchedAreCounted
