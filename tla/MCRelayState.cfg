SPECIFICATION FairSpec
CONSTANTS
    NoPrice = NoPrice
    Null = Null
    source = source
    destination = destination
    submitter = submitter
    Writers = {source, destination, submitter}
    Scanners = {source, destination}
    Log <- RelayLog
    Prices <- RelayPrices
    Skipped = {0, 2}
    MaxRestarts = 2
    MaxFailures = 1
INVARIANTS
    StateIsOfAllEvents
PROPERTIES
    StatusNeverGoesBack
    ChangesAnnounced
CHECK_DEADLOCK FALSE
