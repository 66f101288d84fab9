SPECIFICATION TenantSpec
CONSTANTS
    Manager = {m1}
    Visitor = {v1}
    Admin = {a1}
INVARIANTS
    ErasureIsNotRefused
CHECK_DEADLOCK FALSE
