CONSTANTS
    data <- MCData
    Characters <- MCCharacters
    SerialBound = 3
SPECIFICATION FairSpec
INVARIANTS
    TypeOK
    NoCommandLost
PROPERTIES
    WaterStartsWithALine
    LastCommandPlays
