\* Two entries share a batch, one of them is refused by the table.
CONSTANTS
    Entry = {e1, e2}
    Poison = {e2}
    BatchSize = 2
    MaxWait = 1
    Timer = Timer
    None = None
SPECIFICATION Spec
PROPERTIES
    WellFormedEntryKept
