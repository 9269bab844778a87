CONSTANTS
    Emails = {e1}
    Links = {l1}
    NoLink = NoLink
    Passwords = {p1}
    NoPassword = NoPassword
    Requests = {r1, r2}
    MaxAccounts = 1
SPECIFICATION Spec
CHECK_DEADLOCK FALSE
SYMMETRY Symmetry
PROPERTY LinksUsedOnce
