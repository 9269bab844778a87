CONSTANTS
    Users = {u1, u2}
    NoHash = NoHash
    Requests = {r1, r2}
    Serials = {s1, s2}
SPECIFICATION Spec
SYMMETRY Symmetry
CHECK_DEADLOCK FALSE
INVARIANTS
    LogoutIsFinal
PROPERTIES
    ImplementsGate
