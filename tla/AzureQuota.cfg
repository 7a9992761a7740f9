\* Two scrapes that may be in flight at once, each with its own wait group, on a
\* quota that may be unused, used or unlimited, and a list without entries.
SPECIFICATION Spec
CONSTANTS
    Scrapes = {s1, s2}
    Requests = {r1}
    Overlap = TRUE
    network = network
    storage = storage
    vnets = vnets
    Services = {network, storage}
    Paged = {network}
    ListedBy <- OnePage
    Readings <- ManyReadings
    SubscriptionReads = {TRUE}
    Unlimited = Unlimited
INVARIANTS TypeOK ReturnedScrapeIsIdle MirrorsAccount OneLimitSeriesPerCode
PROPERTY ExportSpec
SYMMETRY Symmetric
