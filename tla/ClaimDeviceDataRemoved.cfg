SPECIFICATION Spec
CONSTANTS
    Reqs = {r1, r2}
    AuthIds = {a1, r1, r2}
    DeviceIds = {d1, r1, r2}
    Idents = {n1}
    Unset = Unset
    NoDoc = NoDoc
    Offered = {"submit", "deleteByDevice"}
    Faults = {"db"}
SYMMETRY Symmetry
PROPERTIES
    DeviceDataRemoved
\* Every request of the instance may be over.
CHECK_DEADLOCK FALSE
