SPECIFICATION Spec
CONSTANTS
    Req = {r1,r2}
    r1 = r1
    r2 = r2
    p1 = p1
    p2 = p2
    t1 = t1
    t2 = t2
    t3 = t3
    h1 = h1
    h2 = h2
    None = None
    Position = {p1, p2}
    SameCustomerScheme <- MCSameCustomerScheme
    InitialTransactions <- MCTransactions
    InitialHoldings <- MCHoldings
    Workload <- CancelWorkload
    MaxInFlight = 1
SYMMETRY Symmetry
INVARIANT CancelledHasNoEffect
