CONSTANTS
    Emails = {e1}
    Codes = {c1, c2}
    NoCode = NoCode
    Requests = {r1, r2}
    AttemptLimit = 2
    SoftDelete = FALSE
    MaxAccounts = 1
SPECIFICATION Spec
SYMMETRY Symmetry
INVARIANT WithinAttemptLimit
