CONSTANTS
    Serials = {n1, n2}
    Missing = Missing
    id1 = id1
    id2 = id2
    Ids = {id1, id2}
    NoId = NoId
    Blank = Blank
    Fresh = Fresh
    Slots = {r1, r2}
    MaxDevices = 2
    Headers <- MCHeaders
    Raws <- MCRaws
SPECIFICATION Spec
SYMMETRY Symmetry
CHECK_DEADLOCK FALSE
INVARIANTS
    TypeOK
    AnswerTellsWhatWasStored
    UnauthorizedMeansToken
    ConnectsAnInverter
    WhereLogAndAnswerAgree
    ReadingsKept
