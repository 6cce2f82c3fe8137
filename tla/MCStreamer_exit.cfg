SPECIFICATION FairSpec
CONSTANTS
    Setups <- MCOneClient
    MaxOutputs = 2
    Retries = 3
PROPERTIES
    SigIntExits
CHECK_DEADLOCK FALSE
