SPECIFICATION Spec
CONSTANTS
    Migrators = {m1, m2}
    Tenants = {t}
    DefaultDb = d
    Places = {p1, p2}
    AuthIds = {a}
    Many = {a}
    Statuses = {s1, s2}
    Updaters = {u}
    NoDoc = NoDoc
    NoDb = NoDb
PROPERTY
    GivenIdsStay
