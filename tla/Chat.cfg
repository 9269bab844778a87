CONSTANTS
    Users = {u1, u2}
    NoUser = NoUser
    Sockets = {s1, s2}
    Requests = {r1, r2}
    ContextLength = 2
    MaxChats = 1
    MaxMessages = 3
SPECIFICATION FairSpec
CHECK_DEADLOCK FALSE
INVARIANTS
    TypeOK
    AnsweredMessageInContext
    GoneSocketsLeftTheirRooms
PROPERTY SendsEnd
