\* Three migrators at one database, where a set may have two statuses.
SPECIFICATION Spec
CONSTANTS
    Migrators = {m1, m2, m3}
    Tenants = {}
    DefaultDb = d
    Places = {p1, p2}
    AuthIds = {a}
    Many = {a}
    Statuses = {s1, s2}
    Updaters = {u}
    NoDoc = NoDoc
    NoDb = NoDb
SYMMETRY Symmetry
INVARIANT
    MigratedOnce
PROPERTIES
    UndoingIsExplained
    MigrationIsNotSeen
