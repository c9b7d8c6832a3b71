\* Two migrators, one tenant, and one set with several attributes in each database.
SPECIFICATION Spec
CONSTANTS
    Migrators = {m1, m2}
    Tenants = {t}
    DefaultDb = d
    Places = {p1, p2}
    AuthIds = {a}
    Many = {a}
    Statuses = {s1}
    Updaters = {u}
    NoDoc = NoDoc
    NoDb = NoDb
SYMMETRY Symmetry
INVARIANTS
    TypeOK
    ServesMigrated
    OldShapeOnlyInDefault
