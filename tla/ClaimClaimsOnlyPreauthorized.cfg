SPECIFICATION Spec
CONSTANTS
    Reqs = {r1, r2, r3}
    AuthIds = {r1, r2, r3}
    DeviceIds = {r1, r2, r3}
    Idents = {n1}
    Unset = Unset
    NoDoc = NoDoc
    Offered = {"preauthorize", "acceptPreauth", "update"}
    Faults = {}
SYMMETRY Symmetry
PROPERTIES
    ClaimsOnlyPreauthorized
\* Every request of the instance may be over.
CHECK_DEADLOCK FALSE
