SPECIFICATION FairSpec
CONSTANTS
    Uids = {u1, u2}
    NoUid = NoUid
    MaxPipeline = 2
    MaxWrites = 3
    MaxChanges = 2
    MaxFailures = 1
CHECK_DEADLOCK FALSE
INVARIANT TypeOK
INVARIANT PipelineIsFront
INVARIANT Correlated
INVARIANT StreamNeeded
INVARIANT CredentialsCatchUp
 
INVARIANT Converged
PROPERTY KeepsQueue
PROPERTY QueueDrains
