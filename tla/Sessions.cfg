\* One user, two event loops and a thread, four requests.  The run ends when
\* the requests are used up.
CONSTANTS
    User = {u1}
    None = None
    Loop = {w1, w2}
    Thread = {h1}
    MaxRequests = 4
SPECIFICATION Spec
SYMMETRY Symmetry
INVARIANTS
    TypeOK
    ExchangedIsSpent
    SerialSingleUse
    UsedTicketIsSpent
    SerialTickets
    SerialResetEnds
CHECK_DEADLOCK FALSE
