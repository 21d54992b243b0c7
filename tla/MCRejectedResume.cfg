SPECIFICATION MCSpec
CONSTANTS
    Absent = Absent
    Torn = Torn
    Mine = Mine
    Boilerplate = Boilerplate
    x = x
    y = y
    m1 = m1
    m2 = m2
    k1 = k1
    Types <- MCTypes
    Ids <- MCIds
    OpenAi <- MCOpenAi
    ApiKeyRef <- MCApiKeyRef
    BaseUrlRef <- MCBaseUrlRef
    Aliases <- MCAliases
    Clients <- MCClients
    OptionalKeys <- MCOptionalKeys
    ServerChoices <- MCServerChoices
    AgentAnswers <- MCAgentAnswers
    OwnPrompts <- MCOwnPrompts
    Operators <- MCOperators
    MaxSessions = 2
    MaxCrashes = 1
    MaxAttempts = 2
PROPERTIES
    RejectRemovesFiles
CHECK_DEADLOCK FALSE
