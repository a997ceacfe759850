SPECIFICATION Spec
CONSTANTS
    Req = {r1, r2}
    Date = {1, 2, 3}
    Number = {n1, n2}
    InitialRows <- MCRows
    Workload <- AdvisorWorkload
    Serial = FALSE
    None = None
    s1 = s1
    s2 = s2
    a1 = a1
    a2 = a2
    n1 = n1
    n2 = n2
    r1 = r1
    r2 = r2
INVARIANT LicenseHasNumber
