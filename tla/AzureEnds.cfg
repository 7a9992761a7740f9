\* Scrapes that overlap end, each by itself, if their calls are answered.
SPECIFICATION FairSpec
CONSTANTS
    Scrapes = {s1, s2}
    Requests = {}
    Overlap = TRUE
    network = network
    storage = storage
    vnets = vnets
    Services = {network, storage}
    Paged = {network}
    ListedBy <- OnePage
    Readings <- FewReadings
    SubscriptionReads = {TRUE}
    Unlimited = Unlimited
PROPERTY ScrapesEnd
