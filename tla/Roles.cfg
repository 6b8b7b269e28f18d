\* Two requests at a time, in one process or in two.
CONSTANTS
    Role = {r1, r2}
    User = {u1, u2}
    ToUpdate = p1
    ToDelete = p2
    Anything = p3
    Perm = {p1, p2, p3}
    None = None
    Deleted = Deleted
    Slot = {s1, s2}
    Process = {w1, w2}
    Lists = {{}, {p1, p2}}
    MaxRequests = 3
SPECIFICATION Spec
SYMMETRY Symmetry
CHECK_DEADLOCK FALSE
INVARIANTS
    TypeOK
    RoleReferences
PROPERTIES
    NoResurrection
    SerialAtomic
