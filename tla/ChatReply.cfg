CONSTANTS
    Users = {u1, u2}
    NoUser = NoUser
    Sockets = {s1}
    Requests = {r1, r2}
    ContextLength = 1
    MaxChats = 1
    MaxMessages = 3
SPECIFICATION Spec
CHECK_DEADLOCK FALSE
PROPERTY AnswersAreSent
