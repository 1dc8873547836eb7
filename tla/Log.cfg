SPECIFICATION FairSpec
CONSTANTS
    ble = ble
    log = log
    Tasks = {ble, log}
    Starters = {log}
    Levels = {1, 2}
    NameLen <- Names
    Calls <- Requests
INVARIANT TypeOK
INVARIANT OneLineAtATime
INVARIANT SentIsWritten
PROPERTY CallsReturn
