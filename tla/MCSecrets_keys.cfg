SPECIFICATION Spec
CONSTANTS
    k1 = k1
    k2 = k2
    k3 = k3
    bad = bad
    a1 = a1
    a2 = a2
    Secret = {k1, k2, k3, bad}
    Valid = {k1, k2, k3}
    Account = {a1, a2}
    AccountOf <- MCAccountOf
    Call = {c1, c2, c3}
    None = None
SYMMETRY Symmetry
INVARIANTS
    NothingLeftBehind
