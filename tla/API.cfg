CONSTANTS
    Nil = Nil
    Names = {0, 1, 2}
    Err = Err
    MACs <- MCMACs
    IntBits = 16
    Kinds <- AllKinds
    NewV1 <- MCNewV1
    NewV2 <- MCNewV2
    Statuses <- MCStatuses
    Ctx <- MCCtx
    Index = 1
    AllPools <- MCPools
SPECIFICATION Spec
INVARIANTS
    TypeOK
    StoredIsValid
    WriteBackHarmless
    EditSticks
    StatusKept
    SecretIsTemplates
    ClaimsSuffice
