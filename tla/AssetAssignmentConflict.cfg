\* Two processes serve two requests for the one asset.
CONSTANTS
    Asset = {a1}
    User = {u1}
    Dept = {v1, v2}
    Worker = {w1, w2}
    None = None
    MaxRequests = 2
SPECIFICATION Spec
PROPERTIES
    AssignKeepsHolder
