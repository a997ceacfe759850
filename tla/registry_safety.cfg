SPECIFICATION Spec
CONSTANTS
    Req = {r1, r2, r3}
    Key = {k1, k2, k3}
    InitialRows <- MCRows
    Workload <- FullWorkload
    None = None
    Unset = Unset
    k1 = k1
    k2 = k2
    k3 = k3
    u1 = u1
    u2 = u2
    a1 = a1
    a2 = a2
    c1 = c1
    c2 = c2
    s1 = s1
    f1 = f1
    n1 = n1
    n2 = n2
    r1 = r1
    r2 = r2
    r3 = r3
CONSTRAINT OneTable
SYMMETRY Symmetry
INVARIANTS
    RegistryInv
    KeysUnique
PROPERTIES
    SoftDeleteIsFinal
    ImplementsUniqueTable
