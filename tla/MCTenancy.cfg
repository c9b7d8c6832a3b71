\* A tenant beside the default database, and an id that both use.
SPECIFICATION ServerSpec
CONSTANTS
    Reqs = {r1, r2, r3}
    Tenants = {t}
    DefaultDb = d
    Ids = {a, r1, r2, r3}
    AuthIds <- Sets
    Offered = {"submit", "update", "acceptPreauth", "delete", "deleteInternal", "deleteByDevice",
               "preauthorize"}
    Unset = Unset
    None = None
    Garbage = Garbage
SYMMETRY Symmetry
INVARIANTS
    RequestsTypeOK
    Authorised
    SameTenant
PROPERTIES
    OwnDatabaseOnly
    KeepsLifecycle
CHECK_DEADLOCK FALSE
