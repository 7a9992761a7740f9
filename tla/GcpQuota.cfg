\* One scrape at a time in a project with one region: a metric of the project and
\* one of the region.
SPECIFICATION Spec
CONSTANTS
    Scrapes = {s1}
    Requests = {r1}
    Overlap = FALSE
    networks = networks
    addresses = addresses
    east = east
    Home = west
    NoRegion = NoRegion
    ProjectQuotas <- ProjectOnly
    RegionQuotas <- HomeList
    Readings <- FewReadings
INVARIANTS TypeOK MirrorsAccount
PROPERTY ExportSpec
