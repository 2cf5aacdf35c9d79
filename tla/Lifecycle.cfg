\* Every interleaving of two signals, failures and calls.
CONSTANTS
    MaxSignals = 2
    MaxCalls = 1
    MaxSubs = 1
SPECIFICATION FairSpec
INVARIANTS TypeOK AllTasksEnded EngineOutlivesServers
\* A process that has ended takes no more steps.
CHECK_DEADLOCK FALSE
PROPERTIES SignalEndsProcess EngineEndsProcess LastServerEndsProcess
