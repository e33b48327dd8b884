\* What survives when orders share an ID, as those of the saga do.
CONSTANTS
    a = a
    b = b
    c = c
    OrderIDs <- SameID
    CancelIDs <- SameID
    Prices = {1}
    MaxPrice = 2
    Quantities = {1, 2}
    MaxOrders = 4
    UniqueIDs = FALSE
SPECIFICATION FairSpec
\* No step is left when MaxOrders have come and the book is empty.
CHECK_DEADLOCK FALSE
INVARIANTS
    FillsAddUp
PROPERTIES
    MatchingTerminates
