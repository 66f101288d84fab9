SPECIFICATION MCSpec
CONSTANTS
    t3 = t3
    s1 = s1
    s2 = s2
    Turn = {t1, t2, t3}
    Session = {s1, s2}
    None = None
    LeadCap = 1
    MaxLeads = 1
    MaxRestarts = 1
INVARIANTS
    TypeOK
    OneTicketPerSession
    ConversationHasTicket
    LeadsAdmitted
PROPERTIES
    RegistrySpec
    EveryTurnEnds
CHECK_DEADLOCK FALSE
