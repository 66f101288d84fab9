SPECIFICATION TenantSpec
CONSTANTS
    Manager = {m1}
    Visitor = {v1}
    Admin = {a1}
INVARIANTS
    ErasedTenantIsEmpty
CHECK_DEADLOCK FALSE
