\* Three requests or changes, in one process or in two.
CONSTANTS
    Asset = {a1}
    Dept = {d1, d2}
    County = {c1}
    Category = {k1}
    User = {u1}
    Role = {r1, r2}
    Unassign = unassign
    Reassign = reassign
    Anything = anything
    Perm = {unassign, reassign, anything}
    Policy = {p1}
    All = all
    None = None
    Slot = {s1, s2}
    Process = {w1, w2}
    MaxRequests = 3
SPECIFICATION Spec
SYMMETRY Symmetry
CHECK_DEADLOCK FALSE
INVARIANTS
    TypeOK
    PermissionsShown
    ScopeNarrows
PROPERTIES
    ActsAreAuthorised
