SPECIFICATION MCSpec
CONSTANTS
    p1 = p1
    p2 = p2
    p3 = p3
    p4 = p4
    k1 = k1
    k2 = k2
    Providers <- MCProviders
    Aliases = {a1, a2}
    Clients <- MCClients
    Types = {"native", "openai"}
    Refs <- MCRefs
    ApiKeyRef <- MCApiKeyRef
    BaseUrlRef <- MCBaseUrlRef
    GatewayKeyRef <- MCGatewayKeyRef
SYMMETRY MCSymmetry
INVARIANTS
    AlwaysLoads
    RowsKeepTheirNeeds
    RejectedIsNoOp
PROPERTIES
    GoesDarkOnlyByConsent
    AcceptedMeansBootable
