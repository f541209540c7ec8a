SPECIFICATION Spec
CONSTANTS
    MaxAttempts = 4
    BaseDelay = 1
    MaxRetryAfter = 60
    RetryAfters = {7, 3600}
    Unstated <- MCUnstated
    Counties = {1, 3}
    Calls <- MCCalls
    ColumnsOf <- MCColumnsOf
    VariablesOf <- MCVariablesOf
    BlocksIn <- MCBlocksIn
    TractOf <- MCTractOf
    BlockVAP <- MCBlockVAP
    Published <- MCPublished
    Threshold = 2
INVARIANTS
    RetriesAreJustified
    ResultsAreSound
PROPERTY
    CallsEnd
