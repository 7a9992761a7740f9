\* Scrapes of two metrics of the load balancers, one at a time.
SPECIFICATION FairSpec
CONSTANTS
    Scrapes = {s1}
    Job <- MCJob
    Metric <- TwoMetrics
    Resource <- MCResource
    Cw <- MCCw
    Accounts <- Changing
    Default = 4
    MaxMetricCount = 2
    StartTime = 11
    MaxTime = 12
INVARIANTS
    TypeOK
    KeptMetricsAreExported
    SeriesNameTheirResource
    SeriesAreConsistent
    PointsAreFinal
PROPERTIES
    PointsNeverRegress
    ScrapesEnd
