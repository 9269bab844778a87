CONSTANTS
    Emails = {e1, e2}
    Googles = {g1, g2}
    NoGoogle = NoGoogle
    Requests = {r1, r2}
    MaxRows = 2
    SoftDelete = FALSE
SPECIFICATION Spec
SYMMETRY Symmetry
CHECK_DEADLOCK FALSE
INVARIANT SessionsOfLinkedAccounts
PROPERTIES
    LinksReplacedInRacesOnly
    SecondAccountsInRacesOnly
