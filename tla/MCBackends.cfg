SPECIFICATION Spec
CONSTANTS
    Clients = {k1, k2}
    NoClient = none
    RetryTicks = 1
    Requests = {r1, r2}
    OpenAfter = 2
    Cooldown = 2
    EmbedTimeout = 3
    Evaluators = {ready, scrape}
    Scrape = scrape
    FreshTicks = 1
INVARIANTS
    NoStrayClient
    TrialsApart
    ProbesShared
SYMMETRY Symmetry
