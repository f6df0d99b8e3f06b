SPECIFICATION FairSpec
CONSTANTS
    NoPrice = NoPrice
    Null = Null
    source = source
    destination = destination
    submitter = submitter
    Writers = {source, destination, submitter}
    Scanners = {source, destination}
    Log <- RelayLog
    Prices <- RelayPrices
    Skipped = {0}
    MaxRestarts = 0
    MaxFailures = 0
PROPERTY PriceOnlyGrows
CHECK_DEADLOCK FALSE
