SPECIFICATION Spec
CONSTANTS
    Ticket = {t1, t2, t3, t4, t5}
    TicketsPerBlock = 2
    TicketExpiry = 1
    StakeEnabledHeight = 1
    StakeValidationHeight = 3
    MaxHeight = 6
SYMMETRY TicketSymmetry
INVARIANTS
    PoolsSound
    DatabaseMatches
    Recoverable
