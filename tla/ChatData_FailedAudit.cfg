SPECIFICATION Spec
CONSTANTS
    Turn = {t1, t2}
    Session = {s1}
    t3 = t3
    s1 = s1
    s2 = s2
    None = None
    LeadCap = 1
    MaxLeads = 1
    MaxRestarts = 0
INVARIANTS
    FailedAuditIsHarmless
CHECK_DEADLOCK FALSE
