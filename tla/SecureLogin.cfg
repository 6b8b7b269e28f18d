\* Logins and administrators on one account, in one process or in two.
CONSTANTS
    User = {u1}
    Slot = {s1, s2}
    Process = {w1, w2}
    None = None
    Duration = 2
    MaxTime = 2
    MaxRequests = 4
SPECIFICATION Spec
SYMMETRY Symmetry
CHECK_DEADLOCK FALSE
INVARIANTS
    TypeOK
    BookAgrees
PROPERTIES
    SerialPenaltyGrows
    SerialKnownDevice
