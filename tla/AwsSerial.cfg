\* Scrapes that end before the next tick, one request of Prometheus at a time.
\* instances is measured through its UsageMetric; the worker of loadbalancers
\* tolerates errors, and the service may leave its quota out of the list.
SPECIFICATION Spec
CONSTANTS
    Scrapes = {s1}
    Collectors = {k1}
    Codes = {instances, loadbalancers}
    UsageMetricCodes = {instances}
    TolerantCodes = {loadbalancers}
    HdlCodes = {}
    Unlisted = {loadbalancers}
    AliasReplies = {hdl}
    HdlAliases = {hdl}
    NoAlias = NoAlias
    NoCode = NoCode
    Expiration = 1
    MaxVersion = 1
    Steady = {loadbalancers}
    ScrapingDuration = 1
    SlowScrapes = FALSE
    MaxTime = 2
INVARIANTS TypeOK NoWaitGroupFault ServesAfterFullScrape CachedCodesAreListed
    OneLimitSeriesPerCode ResponsePairsMatch ResponsesAreFresh RenewedEntriesAreLive
PROPERTY UsageNeverRegresses
