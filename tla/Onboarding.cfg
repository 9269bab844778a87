CONSTANTS
    Users = {u1, u2}
    Serials = {s1, s2}
    NoSerial = NoSerial
    Requests = {r1, r2}
    SoftDelete = FALSE
SPECIFICATION Spec
SYMMETRY Symmetry
CHECK_DEADLOCK FALSE
INVARIANTS
    SerialConnectedOnce
    CompleteHasInverter
PROPERTIES
    OnboardingIsFinal
    ImplementsRegistry
