\* Three callers of one order; locks expire, an access or a process fails once.
CONSTANTS
    c1 = c1
    c2 = c2
    c3 = c3
    Callers <- ThreeCallers
    NoRow = NoRow
    Qty = 2
    Fills <- ReportedFills
    MaxCalls = 4
    MaxFailures = 1
SPECIFICATION Spec
SYMMETRY CallersAlike
\* The behaviour ends when the calls are used up.
CHECK_DEADLOCK FALSE
INVARIANTS
    OneCharge
    RefundExact
    CopyIsFresh
