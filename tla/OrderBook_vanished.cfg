\* With a shared ID a resting order drops out of its level.
CONSTANTS
    a = a
    b = b
    c = c
    OrderIDs <- SameID
    CancelIDs = {}
    Prices = {1}
    MaxPrice = 2
    Quantities = {1, 2}
    MaxOrders = 4
    UniqueIDs = FALSE
SPECIFICATION Spec
\* No step is left when MaxOrders have come and the book is empty.
CHECK_DEADLOCK FALSE
INVARIANTS
    MarketExhaustsBook
