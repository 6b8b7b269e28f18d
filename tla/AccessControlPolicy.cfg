\* One request, and nothing changes while it runs.
CONSTANTS
    Asset = {a1}
    Dept = {d1, d2}
    County = {c1}
    Category = {k1}
    User = {u1}
    Role = {r1, r2}
    Unassign = unassign
    Reassign = reassign
    Anything = anything
    Perm = {unassign, reassign, anything}
    Policy = {p1}
    All = all
    None = None
    Slot = {s1, s2}
    Process = {w1, w2}
    MaxRequests = 1
SPECIFICATION Spec
CHECK_DEADLOCK FALSE
PROPERTIES
    DenyOverrides
