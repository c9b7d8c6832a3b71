\* Four requests about one submitted set and its device, two devices.
SPECIFICATION Spec
CONSTANTS
    Reqs = {r1, r2, r3, r4}
    AuthIds = {a1, r1, r2, r3, r4}
    DeviceIds = {d1, d2, r1, r2, r3, r4}
    Idents = {n1}
    Unset = Unset
    NoDoc = NoDoc
    Offered = {"submit", "update", "deleteInternal", "deleteByDevice"}
    Faults = {}
SYMMETRY Symmetry
INVARIANTS
    DeletedStaysDeleted
    SuccessStands
PROPERTIES
    KeepsLifecycle
    DecisionKeepsSet
\* Every request of the instance may be over.
CHECK_DEADLOCK FALSE
