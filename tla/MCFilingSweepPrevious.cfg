SPECIFICATION Spec
CONSTANTS
    goog = goog
    googl = googl
    alphabet = alphabet
    Tickers = {goog, googl}
    Issuer <- OneCompany
    MaxFilings = 2
    Workers = 2
    Keep = 2
    MaxSweeps = 1
    Modes = {"weekly"}
CHECK_DEADLOCK FALSE
INVARIANT PreviousWaitsForNextRun
