CONSTANTS
    Emails = {e1, e2}
    Links = {l1, l2}
    NoLink = NoLink
    Passwords = {p1}
    NoPassword = NoPassword
    Requests = {r1, r2}
    MaxAccounts = 2
SPECIFICATION Spec
SYMMETRY Symmetry
CHECK_DEADLOCK FALSE
INVARIANT StoredLinksWereMailed
PROPERTIES
    PasswordChangeNeedsMailedLink
    LinkOutlivesFailedReset
