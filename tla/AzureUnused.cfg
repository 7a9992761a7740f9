\* A quota that is used, exported, and then not used any more.
SPECIFICATION Spec
CONSTANTS
    Scrapes = {s1}
    Requests = {r1}
    Overlap = FALSE
    network = network
    storage = storage
    vnets = vnets
    Services = {network, storage}
    Paged = {network}
    ListedBy <- OnePage
    Readings <- FewReadings
    SubscriptionReads = {TRUE}
    Unlimited = Unlimited
PROPERTY UsageIsCurrent
