\* Scrapes that outlast their tick: two in flight on one wait group and one map.
\* The account may turn out to be an "hdl" one in the second scrape, so that the
\* goroutine of routetables returns early in one scrape and measures in another.
SPECIFICATION FairSpec
CONSTANTS
    Scrapes = {s1, s2}
    Collectors = {}
    Codes = {instances, routetables}
    UsageMetricCodes = {instances}
    TolerantCodes = {}
    HdlCodes = {routetables}
    Unlisted = {}
    AliasReplies = {hdl, NoAlias}
    HdlAliases = {hdl}
    NoAlias = NoAlias
    NoCode = NoCode
    Expiration = 1
    MaxVersion = 0
    Steady = {}
    ScrapingDuration = 1
    SlowScrapes = TRUE
    MaxTime = 2
INVARIANTS EndedScrapeHasNoWorkers CounterCountsWorkers
PROPERTY ScrapesEnd
