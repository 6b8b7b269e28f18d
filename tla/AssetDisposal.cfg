\* One asset with two disposals, in a deployment of one or of two processes.
CONSTANTS
    Asset = {a1}
    Disposal = {d1, d2}
    Worker = {w1, w2}
    User = {u1}
    Date = {t1, t2}
    Amount = {m1}
    None = None
SPECIFICATION Spec
SYMMETRY Symmetry
INVARIANTS
    TypeOK
    NoUnauthorisedDisposal
    DisposedWasApproved
    SerialRegister
PROPERTIES
    SerialWorkflow
