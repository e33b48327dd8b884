\* The process dies once, nothing else goes wrong.
CONSTANTS
    g1 = g1
    k1 = k1
    k2 = k2
    r1 = r1
    r2 = r2
    Workers <- OneGateway
    Sagas <- OneSaga
    Requests <- OneRequest
    Actions <- SagaActions
    MaxRetries = 2
    NoOrder = NoOrder
    Troubles <- CrashOnly
    MaxTroubles = 1
SPECIFICATION FairSpec
PROPERTIES
    SagaResumes
