CONSTANTS
    Threads = {t1, t2}
    NoThread = NoThread
    get = get
    list = list
    quiet = quiet
    Opcodes <- MCOpcodes
    Rest <- MCRest
    Silent <- MCSilent
    IdMod = 4
    SendRetries = 2
    NotReadyRetries = 2
    MaxCalls = 2
    MaxQueue = 2
SPECIFICATION FairSpec
INVARIANTS
    TypeOK
    AnswerIsMine
    AnswerIsWhole
PROPERTIES
    ExecuteReturns
CHECK_DEADLOCK FALSE
