SPECIFICATION Spec
CONSTANTS
    Req = {r1, r2}
    Advisor = {a1, a2}
    Seed = {c1, c2, c3, s1, f1, f3, h1, p1, p2, t1}
    SeedRows <- MCRows
    Amount = {1, 2}
    Workload <- DashboardWorkload
    None = None
    a1 = a1
    a2 = a2
    c1 = c1
    c2 = c2
    c3 = c3
    s1 = s1
    f1 = f1
    f3 = f3
    h1 = h1
    p1 = p1
    p2 = p2
    t1 = t1
    r1 = r1
    r2 = r2
SYMMETRY Symmetry
INVARIANTS
    ActiveSipsAreMonthly
