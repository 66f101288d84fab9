SPECIFICATION MCSpec
CONSTANTS
    i1 = i1
    i2 = i2
    m = m
    a = a
    v1 = v1
    v2 = v2
    ta = ta
    tb = tb
    a1 = a1
    b1 = b1
    s1 = s1
    s2 = s2
    d1 = d1
    d2 = d2
    Invite = {i1, i2}
    Console = {m, a}
    Manager = {m}
    Visitor = {v1, v2}
    Request = {1, 2, 3}
    Email <- OneEmail
    Plans <- SmallPlans
    Tenant = {ta, tb}
    Origin = {o1, o2}
    Theme = {t1}
    Put = {1, 2}
    Session = {s1, s2}
    Admin = {a1, b1}
    TenantOf <- Tenants
    Budgets <- SmallBudgets
    Client = {d1, d2}
    SaveId = {1, 2, 3}
    Early = {1}
    Value = {0, 1, 2}
    Default = 0
    Unfit = 2
INVARIANTS
    TypesOK
    InvitesAreSingleUse
    PagesTellTheTruth
    SavedIsTheServers
    AuditsReplay
    UntouchedFieldsStay
PROPERTIES
    WorkEnds
CHECK_DEADLOCK FALSE
