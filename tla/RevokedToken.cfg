CONSTANTS
    Users = {u1}
    NoHash = NoHash
    Requests = {r1}
    Serials = {s1, s2, s3}
SPECIFICATION Spec
SYMMETRY Symmetry
CHECK_DEADLOCK FALSE
PROPERTY RevokedTokensRefused
