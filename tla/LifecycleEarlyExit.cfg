\* A signal while the servers are starting: the stop is lost.
CONSTANTS
    MaxSignals = 1
    MaxCalls = 1
    MaxSubs = 0
SPECIFICATION FairSpec
PROPERTIES ExitStopsServer
CHECK_DEADLOCK FALSE
