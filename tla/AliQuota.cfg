\* Two products of which the calls may fail, one scrape at a time.
SPECIFICATION Spec
CONSTANTS
    Scrapes = {s1}
    Requests = {r1, r2}
    Overlap = FALSE
    ecs = ecs
    slb = slb
    vcpus = vcpus
    balancers = balancers
    ProdCodeList <- ProductList
    QuotasOf <- FewAnswers
    ReadingsOf <- FewReadings
INVARIANTS TypeOK MirrorsReadProducts
PROPERTY ExportSpec
SYMMETRY Symmetric
