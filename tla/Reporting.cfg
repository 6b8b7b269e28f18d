\* One report with two writes in between.
CONSTANTS
    Asset = {a1, a2}
    Dept = {d1, d2, d3}
    User = {u1}
    Transfer = {t1}
    Disposal = {x1}
    Request = {q1}
    Cat = {"Land", "Plant"}
    Condition = {"good", "poor"}
    County = {"Kisumu"}
    Costs = {0, 10}
    Values = {0, 1}
    Rates = {0, 5}
    Ages = {30, 731}
    Lives = {3}
    None = None
    Slot = {s1, s2}
    Process = {w1, w2}
    MaxWrites = 2
SPECIFICATION Spec
SYMMETRY Symmetry
CHECK_DEADLOCK FALSE
INVARIANTS
    TypeOK
    SerialReport
    ComparisonAtRest
    HierarchyAtRest
    ReportsAgree
