\* Four sets, pages of one or two, words of three bits.
SPECIFICATION Spec
CONSTANTS
    AuthIds = {1, 2, 3, 4}
    Params <- MCParams
    PerPageMax = 2
    PerPageDefault = 1
    Modulus = 8
INVARIANTS
    TypeOK
    NoneMissed
    WalkStaysInRange
PROPERTIES
    NoneRepeated
