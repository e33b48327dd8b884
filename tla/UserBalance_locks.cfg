\* Three callers, three calls of any kind, with the lock or without; locks expire and
\* processes die at any moment.
CONSTANTS
    p1 = p1
    p2 = p2
    p3 = p3
    Callers <- ThreeCallers
    Initial = 2
    Amounts <- SomeAmounts
    MaxCalls = 3
SPECIFICATION Spec
SYMMETRY CallersAlike
\* The behaviour ends when the calls are used up.
CHECK_DEADLOCK FALSE
INVARIANTS
    NeverNegative
    TotalConserved
    LedgerExact
