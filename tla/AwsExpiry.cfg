\* One instant less than RenewedEntriesAreLive takes: the entry of a code that one
\* scrape measures at once, and the next one at its end, expires in between.
SPECIFICATION Spec
CONSTANTS
    Scrapes = {s1}
    Collectors = {}
    Codes = {addresses}
    UsageMetricCodes = {}
    TolerantCodes = {}
    HdlCodes = {}
    Unlisted = {}
    AliasReplies = {hdl}
    HdlAliases = {hdl}
    NoAlias = NoAlias
    NoCode = NoCode
    Expiration = 2
    MaxVersion = 1
    Steady = {}
    ScrapingDuration = 2
    SlowScrapes = FALSE
    MaxTime = 5
INVARIANT RenewedEntriesAreLive
