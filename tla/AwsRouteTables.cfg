\* The route tables of a quiet account.
CONSTANTS
    Keys <- MCKeys
    Subnets <- MCSubnets
    ZoneOf <- MCZoneOf
    Sizes <- MCSizes
    GiBPerTiB = 2
    MaxTouched = 0
SPECIFICATION Spec
INVARIANT
    RouteTablesPerVpc
