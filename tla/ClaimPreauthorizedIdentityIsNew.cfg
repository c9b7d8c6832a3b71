SPECIFICATION Spec
CONSTANTS
    Reqs = {r1, r2}
    AuthIds = {r1, r2}
    DeviceIds = {r1, r2}
    Idents = {n1}
    Unset = Unset
    NoDoc = NoDoc
    Offered = {"preauthorize"}
    Faults = {}
SYMMETRY Symmetry
PROPERTIES
    PreauthorizedIdentityIsNew
\* Every request of the instance may be over.
CHECK_DEADLOCK FALSE
