\* One asset, three requests, a user who moves between two departments and may
\* be the caller, in a deployment of one or of two processes.
CONSTANTS
    Asset = {a1}
    User = {u1}
    Dept = {v1, v2}
    Worker = {w1, w2}
    None = None
    MaxRequests = 3
SPECIFICATION Spec
SYMMETRY Symmetry
INVARIANTS
    TypeOK
    OneEventPerChange
    SerialHistory
PROPERTIES
    SerialOfficerFits
