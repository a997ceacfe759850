SPECIFICATION Spec
CONSTANTS
    Req = {r1, r2, r3}
    Scheme = {s1, s2}
    Advisor = {a1, a2}
    RowId = {1, 2, 3, 4}
    Quote <- MCQuote
    Cent = 2
    InitialHoldings <- MCHoldings
    InitialNavs <- MCNavs
    Workload <- FullWorkload
    None = None
    Unset = Unset
    a1 = a1
    a2 = a2
    s1 = s1
    s2 = s2
    r1 = r1
    r2 = r2
    r3 = r3
SYMMETRY Symmetry
INVARIANTS
    ValuationInv
    ValuedAtLatestNav
    OneNavPerScheme
    NoLockCycle
PROPERTIES
    RecalculationOnlyValues
    InexactOnlyInRaces
    CompletionsExactUnlessRaced
