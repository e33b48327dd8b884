\* The matching loop with unique IDs: every request type, two prices, two sizes.
CONSTANTS
    a = a
    b = b
    c = c
    OrderIDs <- IDs
    CancelIDs <- IDs
    Prices = {1, 2}
    MaxPrice = 2
    Quantities = {1, 2}
    MaxOrders = 3
    UniqueIDs = TRUE
SPECIFICATION Spec
SYMMETRY IDSymmetry
\* No step is left when MaxOrders have come and the book is empty.
CHECK_DEADLOCK FALSE
INVARIANTS
    NeverCrossed
    BookConsistent
    MarketExhaustsBook
    TapeAccountsForFills
PROPERTIES
    FinalIsForever
    ImplementsPromise
