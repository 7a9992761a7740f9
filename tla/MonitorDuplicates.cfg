\* A metric with two dimensions of tagged resources.
SPECIFICATION Spec
CONSTANTS
    Scrapes = {s1}
    Job <- MCJob
    Metric <- OneMetric
    Resource <- MCResource
    Cw <- MCCw
    Accounts <- Targeted
    Default = 4
    MaxMetricCount = 2
    StartTime = 10
    MaxTime = 10
INVARIANT SentSeriesDiffer
