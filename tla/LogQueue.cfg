\* Four calls, one refused by the table; a batch is two entries, two ticks make
\* a buffer old.
CONSTANTS
    Entry = {e1, e2, e3, e4}
    Poison = {e4}
    BatchSize = 2
    MaxWait = 2
    Timer = Timer
    None = None
SPECIFICATION Spec
INVARIANTS
    TypeOK
    EachEntryOnce
    BatchBound
    SingleFlight
    DrainedByShutdown
PROPERTIES
    LossHasCause
    ImplementsAuditTrail
    CallReturns
