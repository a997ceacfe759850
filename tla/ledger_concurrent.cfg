SPECIFICATION Spec
CONSTANTS
    Req = {r1,r2,r3}
    r1 = r1
    r2 = r2
    r3 = r3
    p1 = p1
    p2 = p2
    t1 = t1
    t2 = t2
    t3 = t3
    h1 = h1
    h2 = h2
    None = None
    Position = {p1, p2}
    SameCustomerScheme <- MCSameCustomerScheme
    InitialTransactions <- MCTransactions
    InitialHoldings <- MCHoldings
    Workload <- FullWorkload
    MaxInFlight = 3
SYMMETRY Symmetry
INVARIANT LedgerInv
INVARIANT OneActiveHolding
INVARIANT UnitsNonNegative
INVARIANT CompletionCommitsWithUnits
INVARIANT AnswerMatchesTables
INVARIANT NoDeadlock
PROPERTY SoftDeleteIsFinal
PROPERTY OnlyRacesLoseUnits
PROPERTY ImplementsAtomicLedger
