\* All operations, all faults.
SPECIFICATION Spec
CONSTANTS
    Reqs = {r1, r2, r3}
    AuthIds = {a1, r1, r2, r3}
    DeviceIds = {d1, r1, r2, r3}
    Idents = {n1}
    Unset = Unset
    NoDoc = NoDoc
    Offered = {"submit", "update", "acceptPreauth", "delete", "deleteInternal", "deleteByDevice", "preauthorize"}
    Faults = {"db", "timeout", "crash"}
SYMMETRY Symmetry
INVARIANTS
    TypeOK
    DecisionsAuthorised
    SuccessMeansApplied
    PartialSetsAreConcurrent
    ConflictsAreConcurrent
    SuccessStands
    DivergenceIsExplained
PROPERTIES
    LateAcceptanceIsConcurrent
\* Every request of the instance may be over.
CHECK_DEADLOCK FALSE
