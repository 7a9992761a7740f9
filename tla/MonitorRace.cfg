\* A request while a scrape replaces the slice.
SPECIFICATION Spec
CONSTANTS
    Scrapes = {s1}
    Job <- MCJob
    Metric <- OneMetric
    Resource <- MCResource
    Cw <- MCCw
    Accounts <- Growing
    Default = 4
    MaxMetricCount = 2
    StartTime = 10
    MaxTime = 10
INVARIANT ReadsStayInArray
