\* The same deployment: two processes share the disposals of one asset.
CONSTANTS
    Asset = {a1}
    Disposal = {d1, d2}
    Worker = {w1, w2}
    User = {u1}
    Date = {t1, t2}
    Amount = {m1}
    None = None
SPECIFICATION Spec
SYMMETRY Symmetry
INVARIANT RegisterMatchesFile
