\* Two requests, two identities: every request ends, and every step is one of the life
\* cycle and of Tenancy's requests.
SPECIFICATION FairSpec
CONSTANTS
    Reqs = {r1, r2}
    AuthIds = {a1, r1, r2}
    DeviceIds = {d1, r1, r2}
    Idents = {n1, n2}
    Unset = Unset
    NoDoc = NoDoc
    Offered = {"submit", "update", "acceptPreauth", "delete", "deleteInternal", "deleteByDevice", "preauthorize", "badRequest"}
    Faults = {"db", "timeout", "crash"}
INVARIANT
    ConflictsAreConcurrent
PROPERTIES
    KeepsLifecycle
    KeepsTenancy
    EveryRequestEnds
\* Every request of the instance may be over.
CHECK_DEADLOCK FALSE
