\* One gateway, two requests with one key; any one thing may go wrong.
CONSTANTS
    g1 = g1
    k1 = k1
    k2 = k2
    r1 = r1
    r2 = r2
    Workers <- OneGateway
    Sagas <- OneSaga
    Requests <- TwoRequests
    Actions <- SagaActions
    MaxRetries = 3
    NoOrder = NoOrder
    Troubles <- Anything
    MaxTroubles = 1
SPECIFICATION FairSpec
INVARIANTS
    StatusTellsTruth
    RepeatsHaveACause
PROPERTIES
    SettledIsFinal
    EntriesSettle
    SagaCompletes
