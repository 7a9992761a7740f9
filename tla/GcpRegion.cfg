\* Two regions that list the same metric: the label of a regional series is
\* conf.Region for both.
SPECIFICATION Spec
CONSTANTS
    Scrapes = {s1}
    Requests = {r1}
    Overlap = FALSE
    networks = networks
    addresses = addresses
    east = east
    Home = west
    NoRegion = NoRegion
    ProjectQuotas <- ProjectOnly
    RegionQuotas <- RegionList
    Readings <- FewReadings
INVARIANT RegionOfLabel
