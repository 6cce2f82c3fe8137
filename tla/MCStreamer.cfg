SPECIFICATION FairSpec
CONSTANTS
    Setups <- MCSetups
    MaxOutputs = 2
    Retries = 3
INVARIANTS
    LockKept
    SafeWhileRunning
PROPERTIES
    ShutdownCompletes
CHECK_DEADLOCK FALSE
